---- MODULE Spec2Model ----
(***************************************************************************)
(* Drx.MediMate front end: the dashboard session gate and logout           *)
(* (static/js/dashboard-auth.js), the admin dashboard with its users,      *)
(* appointments and invitations (static/js/admin-dashboard.js and its      *)
(* newer revision), and the symptom checker page.                          *)
(*                                                                         *)
(* Every asynchronous call of the scripts (Firestore getDoc / getDocs /    *)
(* updateDoc / deleteDoc / addDoc, fetch) is split at its await: one step  *)
(* issues the request, one step is the remote side answering it, one step  *)
(* is the continuation after the await.  Requests of different handlers    *)
(* are answered and resumed in any order.                                  *)
(***************************************************************************)
EXTENDS Integers, Sequences, FiniteSets, TLC

VARIABLES
    location,       \* window.location: the page that is loaded
    entry,          \* the page the user opened (history)
    redirects,      \* number of script-made navigations since then (history)
    authUser,       \* Firebase auth state: "none", "unverified", "verified"
    serverSession,  \* backend session mirrored by /api/auth/login
    localStorage,   \* [userRole, userData]
    gate,           \* position of the onAuthStateChanged callback
    gateRole,       \* userData.role read by verifyAccess
    calls,          \* requests the gate has issued since the page loaded
    users,          \* store collection "users": uid -> role
    appts,          \* store collection "appointments": id -> document
    revision,       \* admin script the page loads: "static" or "newer"
    domLoaded,      \* the dashboard's DOMContentLoaded handler has run
    usersTable,     \* rows of #usersTable tbody
    userFetches,    \* fetchUsers calls awaiting getDocs
    apptsTable,     \* rows of #appointmentsTable tbody
    apptFetches,    \* fetchAppointments calls awaiting getDocs
    invitations,    \* backend: the invitations issued
    api,            \* backend: the AI-proxy request being served
    others,         \* edits another admin session has sent to the store
    invTable,       \* rows of #invitationsTable tbody
    invFetches,     \* fetchAdminInvitations calls awaiting their request
    pending,        \* handler invocations awaiting their store or backend call
    symptoms,       \* the symptom checker page: button, result box, request
    sections,       \* the sign-in page: style.display of its three sections
    nextId,         \* number of the next handler invocation
    last            \* what the most recent script step settled and showed

vars == <<location, entry, redirects, authUser, serverSession, localStorage,
          gate, gateRole, calls, users, appts, revision, domLoaded,
          usersTable, userFetches, apptsTable, apptFetches, invitations,
          api, others, invTable, invFetches, pending, symptoms, sections,
          nextId, last>>

pageVars == <<domLoaded, usersTable, userFetches, apptsTable, apptFetches,
              invTable, invFetches, pending, symptoms, sections>>
\* What lies outside the page: the store, the backend, the other session.
storeVars == <<users, appts, revision, invitations, api, others>>
userTableVars == <<usersTable, userFetches>>
apptTableVars == <<apptsTable, apptFetches>>
invTableVars == <<invTable, invFetches>>

gateVars == <<location, entry, redirects, authUser, serverSession,
              localStorage, gate, gateRole, calls>>

\* Handler invocations that reach a store or backend call: MaxOps where only
\* the users table is worked on, MaxAdminOps where the whole page is.
\* MaxFetch is the number of fetches of one table in flight at once.
MaxOps == 2
MaxAdminOps == 1
MaxFetch == 2

Null == "null"
Absent == "absent"

----------------------------------------------------------------------------
(* dashboard-auth.js                                                        *)

Roles == {"pharmacist", "doctor", "student", "patient", "admin"}

\* A route table that sends two roles to the same dashboard.
ROLE_ROUTES_Crossed ==
    [r \in Roles |->
        CASE r = "pharmacist" -> "pharmacist-dashboard.html"
          [] r = "doctor"     -> "doctor-dashboard.html"
          [] r = "student"    -> "doctor-dashboard.html"
          [] r = "patient"    -> "patient-dashboard.html"
          [] r = "admin"      -> "admin-dashboard.html"]

ROLE_ROUTES ==
    [r \in Roles |->
        CASE r = "pharmacist" -> "pharmacist-dashboard.html"
          [] r = "doctor"     -> "doctor-dashboard.html"
          [] r = "student"    -> "student-dashboard.html"
          [] r = "patient"    -> "patient-dashboard.html"
          [] r = "admin"      -> "admin-dashboard.html"]

SignInPage == "sisu.html"
AdminPage == "admin-dashboard.html"
DashboardPages == {ROLE_ROUTES[r] : r \in Roles}

\* Role strings a stored profile may carry: the enumeration, or anything else.
StoredRoles == Roles \cup {"nurse"}

Uids == {"u1", "u2"}
\* auth.currentUser.uid
AuthUid == "u1"

getCurrentPageRole(currentPage) ==
    IF \E role \in Roles : ROLE_ROUTES[role] = currentPage
    THEN CHOOSE role \in Roles : ROLE_ROUTES[role] = currentPage
    ELSE Null

NoCalls == [getDoc |-> 0, login |-> 0, check |-> 0]
NoSession == [uid |-> Null, role |-> Null]
EmptyStorage == [userRole |-> Null, userData |-> [role |-> Null]]

\* A script step that settled call (ok or not) and showed its outcome through
\* shown: "alert", "inline", "console", "redirect" or "none".
Shown(call, ok, shown, alert) ==
    [call |-> call, ok |-> ok, shown |-> shown, alert |-> alert]
NoCall == Shown("none", TRUE, "none", "")
\* confirm() was answered with Cancel: the handler returned, nothing shown.
Declined == Shown("confirm", TRUE, "none", "")

\* The symptom checker page as it is served.
NoSymptoms == [button |-> "enabled", result |-> "none", aiResponse |-> "",
               request |-> "none", response |-> ""]

\* The sign-in page as it is served: no script has set a style.display yet,
\* no control was clicked.
NoSections == [signIn |-> "", signup |-> "", recoverPassword |-> "",
               clicked |-> "none"]

\* window.location.href = page: the document is replaced, its scripts, DOM
\* and pending continuations are gone; the new page starts loading.
Navigate(page) ==
    /\ location' = page
    /\ redirects' = redirects + 1
    /\ gate' = "idle"
    /\ gateRole' = Null
    /\ calls' = NoCalls
    /\ domLoaded' = FALSE
    /\ usersTable' = <<>>
    /\ userFetches' = <<>>
    /\ apptsTable' = <<>>
    /\ apptFetches' = <<>>
    /\ invTable' = <<>>
    /\ invFetches' = <<>>
    /\ pending' = {}
    /\ symptoms' = NoSymptoms
    /\ sections' = NoSections

\* The auth observer fires once the auth state is known.
onAuthStateChanged ==
    /\ location \in DashboardPages
    /\ gate = "idle"
    /\ IF authUser = "verified"
       THEN /\ gate' = "getDoc"
            /\ calls' = [calls EXCEPT !.getDoc = @ + 1]
       ELSE /\ gate' = "check"
            /\ calls' = [calls EXCEPT !.check = @ + 1]
    /\ last' = NoCall
    /\ UNCHANGED <<location, entry, redirects, authUser, serverSession,
                   localStorage, gateRole, storeVars, pageVars, nextId>>

\* A gate that asks again when the profile read fails.
verifyAccessProfileRetry ==
    /\ gate = "getDoc"
    /\ \E res \in {"ok", "error"} :
        IF res = "error" \/ users[AuthUid] = Absent
        THEN /\ calls' = [calls EXCEPT !.getDoc = @ + 1]
             /\ calls.getDoc < 3
             /\ last' = Shown("getDoc", FALSE, "console", "")
             /\ UNCHANGED <<location, entry, redirects, authUser, serverSession,
                            localStorage, gate, gateRole, storeVars, pageVars,
                            nextId>>
        ELSE /\ gateRole' = users[AuthUid]
             /\ gate' = "sync"
             /\ calls' = [calls EXCEPT !.login = @ + 1]
             /\ last' = Shown("getDoc", TRUE, "none", "")
             /\ UNCHANGED <<location, entry, redirects, authUser, serverSession,
                            localStorage, storeVars, pageVars, nextId>>

\* verifyAccess, resumed after await getDoc(doc(db, "users", user.uid)).
verifyAccessProfile ==
    /\ gate = "getDoc"
    /\ \E res \in {"ok", "error"} :
        IF res = "error" \/ users[AuthUid] = Absent
        THEN /\ Navigate(SignInPage)
             /\ last' = Shown("getDoc", FALSE, "redirect", "")
             /\ UNCHANGED <<entry, authUser, serverSession, localStorage,
                            storeVars, nextId>>
        ELSE /\ gateRole' = users[AuthUid]
             /\ gate' = "sync"
             /\ calls' = [calls EXCEPT !.login = @ + 1]
             /\ last' = Shown("getDoc", TRUE, "none", "")
             /\ UNCHANGED <<location, entry, redirects, authUser, serverSession,
                            localStorage, storeVars, pageVars, nextId>>

\* A session that is mirrored only for the role of the page, as if the sync
\* came after the role comparison.
AuthLoginOnPage(res, role) ==
    IF res = "ok" /\ role = getCurrentPageRole(location)
    THEN [uid |-> AuthUid, role |-> role] ELSE serverSession

\* POST /api/auth/login as the backend handles it.
AuthLogin(res, role) ==
    IF res = "ok" THEN [uid |-> AuthUid, role |-> role] ELSE serverSession

\* A gate that caches the role before it compares it.
verifyAccessCacheFirst(requiredRole, userRole) ==
    /\ localStorage' = [userRole |-> userRole, userData |-> [role |-> userRole]]
    /\ IF requiredRole # Null /\ userRole # requiredRole
       THEN Navigate(IF userRole \in DOMAIN ROLE_ROUTES
                     THEN ROLE_ROUTES[userRole] ELSE SignInPage)
       ELSE /\ gate' = "proceed"
            /\ UNCHANGED <<location, redirects, gateRole, calls, pageVars>>

\* A gate that lets every role onto every page.
verifyAccessAnyRole(requiredRole, userRole) ==
    /\ localStorage' = [userRole |-> userRole, userData |-> [role |-> userRole]]
    /\ gate' = "proceed"
    /\ UNCHANGED <<location, redirects, gateRole, calls, pageVars>>

\* verifyAccess, resumed after await syncServerSession(user, userData):
\* the role comparison, the redirect or the cache write.
verifyAccessDecide(requiredRole, userRole) ==
    IF requiredRole # Null /\ userRole # requiredRole
    THEN /\ Navigate(IF userRole \in DOMAIN ROLE_ROUTES
                     THEN ROLE_ROUTES[userRole] ELSE SignInPage)
         /\ UNCHANGED localStorage
    ELSE /\ localStorage' = [userRole |-> userRole,
                             userData |-> [role |-> userRole]]
         /\ gate' = "proceed"
         /\ UNCHANGED <<location, redirects, gateRole, calls, pageVars>>

\* A gate that gives up when the session sync fails.
syncServerSessionStrict ==
    /\ gate = "sync"
    /\ \E res \in {"ok", "notOk", "error"} :
        /\ serverSession' = AuthLogin(res, gateRole)
        /\ IF res = "ok"
           THEN /\ last' = Shown("login", TRUE, "none", "")
                /\ verifyAccessDecide(getCurrentPageRole(location), gateRole)
           ELSE /\ last' = Shown("login", FALSE, "console", "")
                /\ Navigate(SignInPage)
                /\ UNCHANGED localStorage
    /\ UNCHANGED <<entry, authUser, storeVars, nextId>>

\* syncServerSession, and verifyAccess resumed after it: whatever the sync
\* returns, verifyAccess goes on.
syncServerSession ==
    /\ gate = "sync"
    /\ \E res \in {"ok", "notOk", "error"} :
        /\ serverSession' = AuthLogin(res, gateRole)
        /\ last' = IF res = "ok"
                   THEN Shown("login", TRUE, "none", "")
                   ELSE Shown("login", FALSE, "console", "")
        /\ verifyAccessDecide(getCurrentPageRole(location), gateRole)
    /\ UNCHANGED <<entry, authUser, storeVars, nextId>>

\* Observer's else branch, resumed after GET /api/auth/check.
AuthCheck == serverSession # NoSession

\* An else branch that stays only on the dashboard of the session's role.
checkServerSessionRole ==
    /\ gate = "check"
    /\ \E res \in {"ok", "error"} :
        IF res = "ok" /\ AuthCheck
           /\ serverSession.role = getCurrentPageRole(location)
        THEN /\ gate' = "stay"
             /\ last' = Shown("check", TRUE, "none", "")
             /\ UNCHANGED <<location, redirects, gateRole, calls, pageVars>>
        ELSE /\ Navigate(SignInPage)
             /\ last' = Shown("check", res = "ok", "redirect", "")
    /\ UNCHANGED <<entry, authUser, serverSession, localStorage, storeVars,
                   nextId>>

checkServerSession ==
    /\ gate = "check"
    /\ \E res \in {"ok", "error"} :
        IF res = "ok" /\ AuthCheck
        THEN /\ gate' = "stay"
             /\ last' = Shown("check", TRUE, "none", "")
             /\ UNCHANGED <<location, redirects, gateRole, calls, pageVars>>
        ELSE /\ Navigate(SignInPage)
             /\ last' = Shown("check", res = "ok", "redirect", "")
    /\ UNCHANGED <<entry, authUser, serverSession, localStorage, storeVars,
                   nextId>>

----------------------------------------------------------------------------
(* admin-dashboard.js: texts and dates                                      *)

\* A text typed into a date prompt, by its digit groups: shape "4-2-2" is
\* dddd-dd-dd with groups a, b, c; "2-2-4" is dd-dd-dddd; "text" is any other
\* non-blank text, "empty" the empty text, "null" a cancelled prompt.  pad
\* says the text is wrapped in white space.
DateText(shape, a, b, c, pad) ==
    [shape |-> shape, a |-> a, b |-> b, c |-> c, pad |-> pad]
NullDate == DateText("null", 0, 0, 0, FALSE)

\* !date
Falsy(date) == date.shape = "null" \/ (date.shape = "empty" /\ ~date.pad)

trimDate(date) == [date EXCEPT !.pad = FALSE]

\* dateRegex.test(date): /^\d{4}-\d{2}-\d{2}$/ in the static revision,
\* /^\d{2}-\d{2}-\d{4}$/ in the newer one.
dateRegexTest(rev, date) ==
    /\ ~date.pad
    /\ date.shape = IF rev = "static" THEN "4-2-2" ELSE "2-2-4"

IsLeap(y) == (y % 4 = 0 /\ y % 100 # 0) \/ y % 400 = 0

DaysInMonth(y, m) ==
    CASE m = 2                -> IF IsLeap(y) THEN 29 ELSE 28
      [] m \in {4, 6, 9, 11} -> 30
      [] OTHER                -> 31

\* Day d of month m (1..12) of year y, with d carried into the months around.
RECURSIVE MakeDay(_, _, _)
MakeDay(y, m, d) ==
    IF d < 1
    THEN LET py == IF m = 1 THEN y - 1 ELSE y
             pm == IF m = 1 THEN 12 ELSE m - 1
         IN  MakeDay(py, pm, d + DaysInMonth(py, pm))
    ELSE IF d > DaysInMonth(y, m)
    THEN MakeDay(IF m = 12 THEN y + 1 ELSE y, IF m = 12 THEN 1 ELSE m + 1,
                 d - DaysInMonth(y, m))
    ELSE <<y, m, d>>

\* A Date: invalid (NaN), or midnight of a day, local or UTC; month is 0..11.
DateValue(valid, y, month, d, utc) ==
    [valid |-> valid, year |-> y, month |-> month, day |-> d, utc |-> utc]
InvalidDate == DateValue(FALSE, 0, 0, 0, FALSE)

\* new Date(year, monthIndex, day)
NewDate(year, monthIndex, day) ==
    LET yy == IF year \in 0..99 THEN 1900 + year ELSE year
        t  == MakeDay(yy + (monthIndex \div 12), (monthIndex % 12) + 1, day)
    IN  DateValue(TRUE, t[1], t[2] - 1, t[3], FALSE)

\* new Date(text) for a text that matches dddd-dd-dd once trimmed.  The date
\* only form is UTC.  Engines differ on a day past the end of its month and
\* on text that is not exactly the ISO form: lenient is one that accepts it.
ParseDate(text, lenient) ==
    IF text.shape # "4-2-2" \/ text.b \notin 1..12 \/ text.c \notin 1..31
    THEN InvalidDate
    ELSE IF text.pad
    THEN IF lenient THEN NewDate(text.a, text.b - 1, text.c) ELSE InvalidDate
    ELSE IF text.c > DaysInMonth(text.a, text.b)
    THEN IF lenient
         THEN [NewDate(text.a, text.b - 1, text.c) EXCEPT !.utc = TRUE]
         ELSE InvalidDate
    ELSE DateValue(TRUE, text.a, text.b - 1, text.c, TRUE)

\* new Date() with setHours(0, 0, 0, 0): local midnight of the current day.
Today == DateValue(TRUE, 2025, 2, 1, FALSE)

\* date < today.  A comparison with NaN is false.  UTC midnight of a day is
\* before its local midnight where local time is behind UTC (west).
Before(date, today, west) ==
    /\ date.valid
    /\ \/ date.year < today.year
       \/ date.year = today.year /\ date.month < today.month
       \/ date.year = today.year /\ date.month = today.month
            /\ date.day < today.day
       \/ date.year = today.year /\ date.month = today.month
            /\ date.day = today.day /\ date.utc /\ west

\* The newer revision: [dayStr, monthStr, yearStr] = text.split('-') and
\* new Date(year, month - 1, day), kept only if it reads back the same.
SplitDate(text) == NewDate(text.c, text.b - 1, text.a)

ReadsBack(text) ==
    LET parsedDate == SplitDate(text)
    IN  /\ parsedDate.year = text.c
        /\ parsedDate.month = text.b - 1
        /\ parsedDate.day = text.a

----------------------------------------------------------------------------
(* admin-dashboard.js: users                                                *)

\* Order in which a users snapshot lists its documents.
UidOrder == <<"u1", "u2">>

ErrorRow == <<"error", "Failed to load. Please try again later.">>

NoUsers == [u \in Uids |-> Absent]

\* usersSnapshot.forEach(...): one row per document of the snapshot.
UserRows(snap) ==
    LET Keep(u) == snap[u] # Absent
        ids == SelectSeq(UidOrder, Keep)
    IN  [i \in 1..Len(ids) |-> <<ids[i], snap[ids[i]]>>]

\* fetchUsers up to its await: the table is emptied, getDocs is sent.
fetchUsersCall ==
    /\ Len(userFetches) < MaxFetch
    /\ usersTable' = <<>>
    /\ userFetches' = Append(userFetches,
                              [phase |-> "sent", ok |-> TRUE, snap |-> NoUsers])

RemoveAt(seq, i) == [j \in 1..(Len(seq) - 1) |-> IF j < i THEN seq[j] ELSE seq[j + 1]]

\* The store answers a getDocs on "users", or the request fails.
getDocsUsers ==
    /\ \E i \in 1..Len(userFetches), ok \in BOOLEAN :
        /\ userFetches[i].phase = "sent"
        /\ userFetches' = [userFetches EXCEPT
                              ![i] = [phase |-> "answered", ok |-> ok,
                                      snap |-> IF ok THEN users ELSE NoUsers]]
    /\ UNCHANGED <<gateVars, symptoms, sections, storeVars, domLoaded, usersTable, apptTableVars,
                   invTableVars, pending, nextId, last>>

\* fetchUsers after its await: the rows, or the error row, are appended.
fetchUsers ==
    /\ \E i \in 1..Len(userFetches) :
        /\ userFetches[i].phase = "answered"
        /\ userFetches' = RemoveAt(userFetches, i)
        /\ IF userFetches[i].ok
           THEN /\ usersTable' = usersTable \o UserRows(userFetches[i].snap)
                /\ last' = Shown("getDocs users", TRUE, "inline", "")
           ELSE /\ usersTable' = Append(usersTable, ErrorRow)
                /\ last' = Shown("getDocs users", FALSE, "inline", "")
    /\ UNCHANGED <<gateVars, symptoms, sections, storeVars, domLoaded, apptTableVars, invTableVars,
                   pending, nextId>>

\* What prompt() can return: null on cancel, or the text typed.
RoleInputs == {Null, "", "   ", "nurse", "Admin", "doctor", "PHARMACIST", " patient"}

\* String.prototype.trim on the texts of the model.
trim(str) ==
    CASE str = "   "      -> ""
      [] str = " patient" -> "patient"
      [] str = " u1 "     -> "u1"
      [] OTHER            -> str

\* String.prototype.toLowerCase on the texts of the model.
toLowerCase(str) ==
    CASE str = "Admin"      -> "admin"
      [] str = "PHARMACIST" -> "pharmacist"
      [] OTHER              -> str

\* A role list with one role too many.
VALID_ROLES_More == {"admin", "doctor", "student", "patient", "pharmacist", "nurse"}

VALID_ROLES == {"admin", "doctor", "student", "patient", "pharmacist"}

\* The text of the e-mail field, by its parts: local, "@" if at, host, "."
\* if dot, tld.
EmailText(local, at, host, dot, tld) ==
    [local |-> local, at |-> at, host |-> host, dot |-> dot, tld |-> tld]
NoEmail == EmailText("", FALSE, "", FALSE, "")

NoArgs == [role |-> Null, patientId |-> Null, doctorId |-> Null, date |-> NullDate,
           email |-> NoEmail]

\* An invocation of handler op (number id) awaiting the call named step.
Await(id, op, step, key, args) ==
    [id |-> id, op |-> op, step |-> step, key |-> key, args |-> args,
     phase |-> "sent", ok |-> TRUE, found |-> FALSE, code |-> 0]

\* The rows whose buttons the admin can click.
UserRowIds == {usersTable[i][1] : i \in 1..Len(usersTable)} \ {ErrorRow[1]}

\* An editUser whose role check alerts and goes on to the update.
editUserNoReturn(userId, newRole) ==
    /\ location = AdminPage
    /\ userId \in UserRowIds
    /\ IF newRole = Null \/ newRole = "" \/ trim(newRole) = ""
       THEN /\ last' = Shown("none", TRUE, "alert", "Role cannot be empty")
            /\ UNCHANGED <<pending, nextId>>
       ELSE /\ pending' = pending \cup
                {Await(nextId, "editUser", "updateDoc", userId,
                       [NoArgs EXCEPT !.role = toLowerCase(newRole)])}
            /\ nextId' = nextId + 1
            /\ last' = IF toLowerCase(newRole) \notin VALID_ROLES
                       THEN Shown("none", TRUE, "alert", "Invalid role")
                       ELSE NoCall
    /\ UNCHANGED <<gateVars, symptoms, sections, storeVars, domLoaded, userTableVars, apptTableVars,
                   invTableVars>>

\* editUser(userId) up to await updateDoc(...).
editUser(userId, newRole) ==
    /\ location = AdminPage
    /\ userId \in UserRowIds
    /\ IF newRole = Null \/ newRole = "" \/ trim(newRole) = ""
       THEN /\ last' = Shown("none", TRUE, "alert", "Role cannot be empty")
            /\ UNCHANGED <<pending, nextId>>
       ELSE IF toLowerCase(newRole) \notin VALID_ROLES
       THEN /\ last' = Shown("none", TRUE, "alert", "Invalid role")
            /\ UNCHANGED <<pending, nextId>>
       ELSE /\ pending' = pending \cup
                {Await(nextId, "editUser", "updateDoc", userId,
                       [NoArgs EXCEPT !.role = toLowerCase(newRole)])}
            /\ nextId' = nextId + 1
            /\ last' = NoCall
    /\ UNCHANGED <<gateVars, symptoms, sections, storeVars, domLoaded, userTableVars, apptTableVars,
                   invTableVars>>

\* A deleteUser that does not wait for the answer of the confirm dialog.
deleteUserUnasked(userId, confirmed) ==
    /\ location = AdminPage
    /\ userId \in UserRowIds
    /\ pending' = pending \cup
          {Await(nextId, "deleteUser", "deleteDoc", userId, NoArgs)}
    /\ nextId' = nextId + 1
    /\ last' = NoCall
    /\ UNCHANGED <<gateVars, symptoms, sections, storeVars, domLoaded, userTableVars, apptTableVars,
                   invTableVars>>

\* deleteUser(userId) up to await deleteDoc(...).
deleteUser(userId, confirmed) ==
    /\ location = AdminPage
    /\ userId \in UserRowIds
    /\ IF confirmed
       THEN /\ pending' = pending \cup
                {Await(nextId, "deleteUser", "deleteDoc", userId, NoArgs)}
            /\ nextId' = nextId + 1
            /\ last' = NoCall
       ELSE /\ last' = Declined
            /\ UNCHANGED <<pending, nextId>>
    /\ UNCHANGED <<gateVars, symptoms, sections, storeVars, domLoaded, userTableVars, apptTableVars,
                   invTableVars>>

\* The store applies a write on "users" (updateDoc fails on a missing
\* document), or the request fails.
writeUsers ==
    /\ \E p \in pending, ok \in BOOLEAN :
        /\ p.phase = "sent"
        /\ p.step \in {"updateDoc", "deleteDoc"}
        /\ p.op \in {"editUser", "deleteUser"}
        /\ LET applied == ok /\ (p.step = "updateDoc" => users[p.key] # Absent)
           IN  /\ users' = IF ~applied THEN users
                           ELSE IF p.step = "deleteDoc"
                           THEN [users EXCEPT ![p.key] = Absent]
                           ELSE [users EXCEPT ![p.key] = p.args.role]
               /\ pending' = (pending \ {p}) \cup
                     {[p EXCEPT !.phase = "answered", !.ok = applied]}
    /\ UNCHANGED <<gateVars, symptoms, sections, appts, revision, invitations, api, others, domLoaded,
                   userTableVars, apptTableVars, invTableVars, nextId, last>>

\* An editUser that sends its write again when it failed.
editUserDoneRetry ==
    /\ \E p \in pending :
        /\ p.op = "editUser" /\ p.phase = "answered"
        /\ pending' = IF p.ok THEN pending \ {p}
                      ELSE (pending \ {p}) \cup {[p EXCEPT !.phase = "sent"]}
        /\ IF p.ok
           THEN /\ fetchUsersCall
                /\ last' = Shown("updateDoc users", TRUE, "alert",
                                 "User role updated successfully")
           ELSE /\ last' = Shown("updateDoc users", FALSE, "alert",
                                 "Failed to update user role. Database error.")
                /\ UNCHANGED <<usersTable, userFetches>>
    /\ UNCHANGED <<gateVars, symptoms, sections, storeVars, domLoaded, apptTableVars, invTableVars,
                   nextId>>

\* editUser after await updateDoc(...).
editUserDone ==
    /\ \E p \in pending :
        /\ p.op = "editUser" /\ p.phase = "answered"
        /\ pending' = pending \ {p}
        /\ IF p.ok
           THEN /\ fetchUsersCall
                /\ last' = Shown("updateDoc users", TRUE, "alert",
                                 "User role updated successfully")
           ELSE /\ last' = Shown("updateDoc users", FALSE, "alert",
                                 "Failed to update user role. Database error.")
                /\ UNCHANGED <<usersTable, userFetches>>
    /\ UNCHANGED <<gateVars, symptoms, sections, storeVars, domLoaded, apptTableVars, invTableVars,
                   nextId>>

\* A deleteUser that fetches the table again whether or not the delete failed.
deleteUserDoneAlways ==
    /\ \E p \in pending :
        /\ p.op = "deleteUser" /\ p.phase = "answered"
        /\ pending' = pending \ {p}
        /\ IF p.ok
           THEN /\ fetchUsersCall
                /\ last' = Shown("deleteDoc users", TRUE, "none", "")
           ELSE /\ last' = Shown("deleteDoc users", FALSE, "alert",
                                 "Failed to delete user. Please try again.")
                /\ fetchUsersCall
    /\ UNCHANGED <<gateVars, symptoms, sections, storeVars, domLoaded, apptTableVars, invTableVars,
                   nextId>>

\* deleteUser after await deleteDoc(...).
deleteUserDone ==
    /\ \E p \in pending :
        /\ p.op = "deleteUser" /\ p.phase = "answered"
        /\ pending' = pending \ {p}
        /\ IF p.ok
           THEN /\ fetchUsersCall
                /\ last' = Shown("deleteDoc users", TRUE, "none", "")
           ELSE /\ last' = Shown("deleteDoc users", FALSE, "alert",
                                 "Failed to delete user. Please try again.")
                /\ UNCHANGED <<usersTable, userFetches>>
    /\ UNCHANGED <<gateVars, symptoms, sections, storeVars, domLoaded, apptTableVars, invTableVars,
                   nextId>>

----------------------------------------------------------------------------
(* admin-dashboard.js: appointments                                         *)

ApptOrder == <<"a1", "a2">>
ApptIds == {ApptOrder[i] : i \in 1..Len(ApptOrder)}

Appt(patientId, doctorId, date) ==
    [patientId |-> patientId, doctorId |-> doctorId, date |-> date]
\* An id no document was created under yet, and the id of a deleted document.
NoAppt == Appt(Absent, Absent, NullDate)
DeletedAppt == Appt("deleted", "deleted", NullDate)
Exists(appt) == appt # NoAppt /\ appt # DeletedAppt

\* Documents of the collections "patients" and "doctors".
Patients == {"u1"}
Doctors == {"u2"}

PatientInputs == {Null, "   ", " u1 ", "p9"}
DoctorInputs == {Null, "", "u2", "d9"}

\* Days typed as (year, month, day): past, today, future, and the days no
\* calendar has.
Days ==
    {<<2024, 12, 31>>, <<2025, 3, 1>>, <<2025, 3, 2>>, <<2025, 2, 30>>,
     <<2025, 13, 1>>, <<2025, 4, 0>>}

DateInputs ==
    {NullDate, DateText("empty", 0, 0, 0, FALSE), DateText("empty", 0, 0, 0, TRUE),
     DateText("text", 0, 0, 0, FALSE)}
    \cup {DateText("4-2-2", t[1], t[2], t[3], FALSE) : t \in Days}
    \cup {DateText("2-2-4", t[3], t[2], t[1], FALSE) : t \in Days}
    \cup {DateText("4-2-2", 2024, 12, 31, TRUE), DateText("2-2-4", 31, 12, 2024, TRUE)}

ApptErrorRow == [id |-> "error", patient |-> "Failed to load", doctor |-> "",
                 date |-> NullDate, patientId |-> "", doctorId |-> ""]

\* One row per document of the snapshot.  The static revision shows the ids;
\* the newer one shows 'Loading...' until the names are resolved, for the
\* appt.patientId and appt.doctorId its callbacks were created with.
ApptRows(rev, snap) ==
    LET Keep(a) == Exists(snap[a])
        ids == SelectSeq(ApptOrder, Keep)
    IN  [i \in 1..Len(ids) |->
            [id |-> ids[i],
             patient |-> IF rev = "static" THEN snap[ids[i]].patientId
                         ELSE "Loading...",
             doctor |-> IF rev = "static" THEN snap[ids[i]].doctorId
                        ELSE "Loading...",
             date |-> snap[ids[i]].date,
             patientId |-> snap[ids[i]].patientId,
             doctorId |-> snap[ids[i]].doctorId]]

NoAppts == [a \in ApptIds |-> NoAppt]

\* fetchAppointments up to its await.
fetchAppointmentsCall ==
    /\ Len(apptFetches) < MaxFetch
    /\ apptsTable' = <<>>
    /\ apptFetches' = Append(apptFetches,
                              [phase |-> "sent", ok |-> TRUE, snap |-> NoAppts])

\* The store answers a getDocs on "appointments", or the request fails.
getDocsAppointments ==
    /\ \E i \in 1..Len(apptFetches), ok \in BOOLEAN :
        /\ apptFetches[i].phase = "sent"
        /\ apptFetches' = [apptFetches EXCEPT
                              ![i] = [phase |-> "answered", ok |-> ok,
                                      snap |-> IF ok THEN appts ELSE NoAppts]]
    /\ UNCHANGED <<gateVars, symptoms, sections, storeVars, domLoaded, userTableVars, apptsTable,
                   invTableVars, pending, nextId, last>>

\* fetchAppointments after its await.
fetchAppointments ==
    /\ \E i \in 1..Len(apptFetches) :
        /\ apptFetches[i].phase = "answered"
        /\ apptFetches' = RemoveAt(apptFetches, i)
        /\ IF apptFetches[i].ok
           THEN /\ apptsTable' = apptsTable \o ApptRows(revision, apptFetches[i].snap)
                /\ last' = Shown("getDocs appointments", TRUE, "inline", "")
           ELSE /\ apptsTable' = Append(apptsTable, ApptErrorRow)
                /\ last' = Shown("getDocs appointments", FALSE, "inline", "")
    /\ UNCHANGED <<gateVars, symptoms, sections, storeVars, domLoaded, userTableVars, invTableVars,
                   pending, nextId>>

\* firstName and lastName of the user documents; no handler writes them.
firstName == [u \in Uids |-> IF u = "u1" THEN "Ann" ELSE ""]
lastName == [u \in Uids |-> IF u = "u1" THEN "Lee" ELSE ""]

\* `${first} ${last}`.trim()
FullName(first, surname) ==
    IF first = "" THEN surname
    ELSE IF surname = "" THEN first
    ELSE first \o " " \o surname

\* A name lookup that shows the name even if it is blank.
getUserNameByIdBlank(uid, ok) ==
    IF ok /\ uid \in Uids /\ users[uid] # Absent
    THEN FullName(firstName[uid], lastName[uid])
    ELSE uid

\* getUserNameById(uid): the full name of the user document, or the uid when
\* the document is missing, the name is blank or getDoc fails.
getUserNameById(uid, ok) ==
    IF ok /\ uid \in Uids /\ users[uid] # Absent
    THEN IF FullName(firstName[uid], lastName[uid]) # ""
         THEN FullName(firstName[uid], lastName[uid])
         ELSE uid
    ELSE uid

NameCells == {"patient", "doctor"}

\* At most MaxFetch overlapping fetches append their rows to one table.
MaxRows == MaxFetch * Cardinality(ApptIds)

\* getUserNameById(...).then(name => cell.textContent = name) for the cell
\* of column cell in row i.
getUserNameByIdThen(i, cell) ==
    /\ revision = "newer"
    /\ i \in 1..Len(apptsTable)
    /\ apptsTable[i][cell] = "Loading..."
    /\ \E ok \in BOOLEAN :
          apptsTable' =
             [apptsTable EXCEPT ![i][cell] =
                 getUserNameById(IF cell = "patient" THEN apptsTable[i].patientId
                                 ELSE apptsTable[i].doctorId, ok)]
    /\ UNCHANGED <<gateVars, symptoms, sections, storeVars, domLoaded, userTableVars,
                   apptFetches, invTableVars, pending, nextId, last>>

ApptRowIds == {apptsTable[i].id : i \in 1..Len(apptsTable)} \ {ApptErrorRow.id}

Blank(text) == text = Null \/ text = "" \/ trim(text) = ""

\* The checks of addAppointment before any store call: the alert shown, or
\* "" when the input passes.
addAppointmentCheck(rev, patientId, doctorId, date) ==
    IF Blank(patientId) THEN "Patient ID cannot be empty"
    ELSE IF Blank(doctorId) THEN "Doctor ID cannot be empty"
    ELSE IF Falsy(date) \/ ~dateRegexTest(rev, date)
    THEN "Please enter a valid date"
    ELSE IF rev = "newer" /\ ~ReadsBack(date)
    THEN "Please enter a valid calendar date"
    ELSE IF rev = "newer" /\ Before(SplitDate(date), Today, FALSE)
    THEN "Cannot schedule appointments in the past"
    ELSE ""

\* The checks of editAppointment: "return" when the prompt was cancelled.
editAppointmentCheck(rev, newDate, lenient, west) ==
    IF Falsy(newDate) THEN "return"
    ELSE IF ~dateRegexTest(rev, trimDate(newDate))
    THEN "Please enter a valid date"
    ELSE IF rev = "newer" /\ ~ReadsBack(trimDate(newDate))
    THEN "Please enter a valid calendar date"
    ELSE IF Before(IF rev = "static" THEN ParseDate(newDate, lenient)
                   ELSE SplitDate(trimDate(newDate)), Today, west)
    THEN "Cannot schedule appointments in the past"
    ELSE ""

\* Ids the store has not used yet, less those that adds in flight will take.
FreeIds == {a \in ApptIds : appts[a] = NoAppt}
AddsInFlight == {p \in pending : p.op = "addAppointment"}

\* addAppointment up to its first await: addDoc in the static revision,
\* getDoc(doc(db, "patients", ...)) in the newer one.
addAppointment(patientId, doctorId, date) ==
    /\ location = AdminPage
    /\ Cardinality(AddsInFlight) < Cardinality(FreeIds)
    /\ LET msg == addAppointmentCheck(revision, patientId, doctorId, date)
           args == [NoArgs EXCEPT !.patientId = trim(patientId),
                                  !.doctorId = trim(doctorId), !.date = date]
       IN  IF msg # ""
           THEN /\ last' = Shown("none", TRUE, "alert", msg)
                /\ UNCHANGED <<pending, nextId>>
           ELSE /\ pending' = pending \cup
                    {IF revision = "static"
                     THEN Await(nextId, "addAppointment", "addDoc", Null, args)
                     ELSE Await(nextId, "addAppointment", "getDoc patients",
                                trim(patientId), args)}
                /\ nextId' = nextId + 1
                /\ last' = NoCall
    /\ UNCHANGED <<gateVars, symptoms, sections, storeVars, domLoaded, userTableVars, apptTableVars,
                   invTableVars>>

\* editAppointment(apptId) up to await updateDoc(...).
editAppointment(apptId, newDate, lenient, west) ==
    /\ location = AdminPage
    /\ apptId \in ApptRowIds
    /\ LET msg == editAppointmentCheck(revision, newDate, lenient, west)
       IN  IF msg = "return"
           THEN /\ last' = NoCall
                /\ UNCHANGED <<pending, nextId>>
           ELSE IF msg # ""
           THEN /\ last' = Shown("none", TRUE, "alert", msg)
                /\ UNCHANGED <<pending, nextId>>
           ELSE /\ pending' = pending \cup
                    {Await(nextId, "editAppointment", "updateDoc", apptId,
                           [NoArgs EXCEPT !.date = trimDate(newDate)])}
                /\ nextId' = nextId + 1
                /\ last' = NoCall
    /\ UNCHANGED <<gateVars, symptoms, sections, storeVars, domLoaded, userTableVars, apptTableVars,
                   invTableVars>>

\* deleteAppointment(apptId) up to await deleteDoc(...).
deleteAppointment(apptId, confirmed) ==
    /\ location = AdminPage
    /\ apptId \in ApptRowIds
    /\ IF apptId = Null
       THEN /\ last' = Shown("none", TRUE, "alert",
                             "Cannot delete appointment: Invalid ID")
            /\ UNCHANGED <<pending, nextId>>
       ELSE IF confirmed
       THEN /\ pending' = pending \cup
                {Await(nextId, "deleteAppointment", "deleteDoc", apptId, NoArgs)}
            /\ nextId' = nextId + 1
            /\ last' = NoCall
       ELSE /\ last' = Declined
            /\ UNCHANGED <<pending, nextId>>
    /\ UNCHANGED <<gateVars, symptoms, sections, storeVars, domLoaded, userTableVars, apptTableVars,
                   invTableVars>>

\* The store answers a getDoc on "patients" or "doctors", or the request fails.
getDocPerson ==
    /\ \E p \in pending, ok \in BOOLEAN :
        /\ p.phase = "sent"
        /\ p.step \in {"getDoc patients", "getDoc doctors"}
        /\ pending' = (pending \ {p}) \cup
              {[p EXCEPT !.phase = "answered", !.ok = ok,
                         !.found = ok /\ p.key \in (IF p.step = "getDoc patients"
                                                    THEN Patients ELSE Doctors)]}
    /\ UNCHANGED <<gateVars, symptoms, sections, storeVars, domLoaded, userTableVars, apptTableVars,
                   invTableVars, nextId, last>>

\* The store applies a write on "appointments" (updateDoc fails on a
\* missing document), or the request fails.
writeAppointments ==
    /\ \E p \in pending, ok \in BOOLEAN :
        /\ p.phase = "sent"
        /\ p.step \in {"updateDoc", "deleteDoc", "addDoc"}
        /\ p.op \in {"addAppointment", "editAppointment", "deleteAppointment"}
        /\ LET applied == ok /\ (p.step = "updateDoc" => Exists(appts[p.key]))
               newId == CHOOSE a \in FreeIds :
                            \A b \in FreeIds : b = a \/ a = ApptOrder[1]
           IN  /\ appts' =
                     IF ~applied THEN appts
                     ELSE IF p.step = "deleteDoc"
                     THEN [appts EXCEPT ![p.key] = DeletedAppt]
                     ELSE IF p.step = "updateDoc"
                     THEN [appts EXCEPT ![p.key].date = p.args.date]
                     ELSE [appts EXCEPT ![newId] =
                              Appt(p.args.patientId, p.args.doctorId, p.args.date)]
               /\ pending' = (pending \ {p}) \cup
                     {[p EXCEPT !.phase = "answered", !.ok = applied]}
    /\ UNCHANGED <<gateVars, symptoms, sections, users, revision, invitations, api, others, domLoaded,
                   userTableVars, apptTableVars, invTableVars, nextId, last>>

\* An addAppointment that goes on whether or not the document was found.
addAppointmentLookupLax ==
    /\ \E p \in pending :
        /\ p.op = "addAppointment" /\ p.phase = "answered"
        /\ p.step \in {"getDoc patients", "getDoc doctors"}
        /\ IF ~p.ok
           THEN /\ pending' = pending \ {p}
                /\ last' = Shown(p.step, FALSE, "alert",
                                 "Failed to add appointment. Database error occurred.")
           ELSE /\ pending' = (pending \ {p}) \cup
                    {IF p.step = "getDoc patients"
                     THEN Await(p.id, p.op, "getDoc doctors", p.args.doctorId, p.args)
                     ELSE Await(p.id, p.op, "addDoc", Null, p.args)}
                /\ last' = Shown(p.step, TRUE, "none", "")
    /\ UNCHANGED <<gateVars, symptoms, sections, storeVars, domLoaded, userTableVars, apptTableVars,
                   invTableVars, nextId>>

\* Newer addAppointment after await getDoc(patientDocRef), and after
\* await getDoc(doctorDocRef).
addAppointmentLookup ==
    /\ \E p \in pending :
        /\ p.op = "addAppointment" /\ p.phase = "answered"
        /\ p.step \in {"getDoc patients", "getDoc doctors"}
        /\ IF ~p.ok
           THEN /\ pending' = pending \ {p}
                /\ last' = Shown(p.step, FALSE, "alert",
                                 "Failed to add appointment. Database error occurred.")
           ELSE IF ~p.found
           THEN /\ pending' = pending \ {p}
                /\ last' = Shown(p.step, TRUE, "alert",
                                 IF p.step = "getDoc patients"
                                 THEN "Invalid Patient ID. No such patient found."
                                 ELSE "Invalid Doctor ID. No such doctor found.")
           ELSE /\ pending' = (pending \ {p}) \cup
                    {IF p.step = "getDoc patients"
                     THEN Await(p.id, p.op, "getDoc doctors", p.args.doctorId, p.args)
                     ELSE Await(p.id, p.op, "addDoc", Null, p.args)}
                /\ last' = Shown(p.step, TRUE, "none", "")
    /\ UNCHANGED <<gateVars, symptoms, sections, storeVars, domLoaded, userTableVars, apptTableVars,
                   invTableVars, nextId>>

\* addAppointment, editAppointment and deleteAppointment after the await of
\* their write.
WriteAlert(op, ok) ==
    CASE op = "addAppointment" ->
            IF ok THEN "Appointment added successfully"
            ELSE "Failed to add appointment. Database error occurred."
      [] op = "editAppointment" ->
            IF ok THEN "Appointment updated successfully"
            ELSE "Failed to update appointment. Database error occurred."
      [] op = "deleteAppointment" ->
            IF ok THEN "Appointment deleted successfully"
            ELSE "Failed to delete appointment. Database error occurred."

appointmentWritten(op) ==
    /\ \E p \in pending :
        /\ p.op = op /\ p.phase = "answered"
        /\ p.step \in {"updateDoc", "deleteDoc", "addDoc"}
        /\ pending' = pending \ {p}
        /\ last' = Shown(p.step \o " appointments", p.ok, "alert", WriteAlert(op, p.ok))
        /\ IF p.ok
           THEN fetchAppointmentsCall
           ELSE UNCHANGED apptTableVars
    /\ UNCHANGED <<gateVars, symptoms, sections, storeVars, domLoaded, userTableVars, invTableVars,
                   nextId>>

addAppointmentDone == appointmentWritten("addAppointment")
editAppointmentDone == appointmentWritten("editAppointment")
deleteAppointmentDone == appointmentWritten("deleteAppointment")

----------------------------------------------------------------------------
(* admin-dashboard.js: invitations                                          *)

\* Parts without white space and "@", and one with a blank in it.
EmailInputs ==
    {NoEmail,
     EmailText("ann", FALSE, "", FALSE, ""),
     EmailText("ann", TRUE, "clinic", FALSE, ""),
     EmailText("", TRUE, "clinic", TRUE, "org"),
     EmailText("an n", TRUE, "clinic", TRUE, "org"),
     EmailText("ann", TRUE, "clinic", TRUE, "org")}

\* [^\s@]+
Word(part) == part # "" /\ part # "an n"

\* validateEmail: /^[^\s@]+@[^\s@]+\.[^\s@]+$/
validateEmail(email) ==
    /\ email.at /\ email.dot
    /\ Word(email.local) /\ Word(email.host) /\ Word(email.tld)

Invitation(email, code, used) == [email |-> email, code |-> code, used |-> used]

\* The backend holds one invitation, already used.
InitInvitations ==
    <<Invitation(EmailText("bob", TRUE, "clinic", TRUE, "org"), 1, TRUE)>>

\* POST /api/admin/invitation as the backend handles it: a new code, stored
\* with the e-mail and used = false.
NewCode == Len(invitations) + 1
CreateInvitation(email) == Append(invitations, Invitation(email, NewCode, FALSE))

\* A display that shows the status the wrong way round.
InvitationRowsSwapped(list) ==
    [i \in 1..Len(list) |->
        [email |-> list[i].email, code |-> list[i].code,
         status |-> IF list[i].used THEN "Active" ELSE "Used"]]

\* displayInvitations(invitations): one row per invitation.
InvitationRows(list) ==
    [i \in 1..Len(list) |->
        [email |-> list[i].email, code |-> list[i].code,
         status |-> IF list[i].used THEN "Used" ELSE "Active"]]

\* fetchAdminInvitations up to its first await: the request in the static
\* revision, getIdToken() in the newer one.  created is the code of the
\* invitation whose creation called it, 0 on page load.
fetchAdminInvitationsCall(created) ==
    /\ Len(invFetches) < MaxFetch
    /\ invFetches' = Append(invFetches,
            [phase |-> IF revision = "static" THEN "sent" ELSE "token",
             ok |-> TRUE, snap |-> <<>>, created |-> created])
    /\ UNCHANGED invTable

\* Newer fetchAdminInvitations after await currentUser.getIdToken().
fetchAdminInvitationsToken ==
    /\ \E i \in 1..Len(invFetches), ok \in BOOLEAN :
        /\ invFetches[i].phase = "token"
        /\ IF ok
           THEN /\ invFetches' = [invFetches EXCEPT ![i].phase = "sent"]
                /\ last' = Shown("getIdToken list", TRUE, "none", "")
           ELSE /\ invFetches' = RemoveAt(invFetches, i)
                /\ last' = Shown("getIdToken list", FALSE, "console", "")
    /\ UNCHANGED <<gateVars, symptoms, sections, storeVars, domLoaded, userTableVars, apptTableVars,
                   invTable, pending, nextId>>

\* GET /api/admin/invitations answered: the list, a refusal, or no answer.
listInvitations ==
    /\ \E i \in 1..Len(invFetches), ok \in BOOLEAN :
        /\ invFetches[i].phase = "sent"
        /\ invFetches' = [invFetches EXCEPT
                             ![i].phase = "answered", ![i].ok = ok,
                             ![i].snap = IF ok THEN invitations ELSE <<>>]
    /\ UNCHANGED <<gateVars, symptoms, sections, storeVars, domLoaded, userTableVars, apptTableVars,
                   invTable, pending, nextId, last>>

\* A fetchAdminInvitations that alerts when the list cannot be had.
fetchAdminInvitationsAlert ==
    /\ \E i \in 1..Len(invFetches) :
        /\ invFetches[i].phase = "answered"
        /\ invFetches' = RemoveAt(invFetches, i)
        /\ IF invFetches[i].ok
           THEN /\ invTable' = InvitationRows(invFetches[i].snap)
                /\ last' = Shown("GET invitations", TRUE, "inline", "")
           ELSE /\ last' = Shown("GET invitations", FALSE, "alert",
                                 "Failed to load invitations")
                /\ UNCHANGED invTable
    /\ UNCHANGED <<gateVars, symptoms, sections, storeVars, domLoaded, userTableVars, apptTableVars,
                   pending, nextId>>

\* fetchAdminInvitations after its request: the list is displayed, anything
\* else is logged.
fetchAdminInvitations ==
    /\ \E i \in 1..Len(invFetches) :
        /\ invFetches[i].phase = "answered"
        /\ invFetches' = RemoveAt(invFetches, i)
        /\ IF invFetches[i].ok
           THEN /\ invTable' = InvitationRows(invFetches[i].snap)
                /\ last' = Shown("GET invitations", TRUE, "inline", "")
           ELSE /\ last' = Shown("GET invitations", FALSE, "console", "")
                /\ UNCHANGED invTable
    /\ UNCHANGED <<gateVars, symptoms, sections, storeVars, domLoaded, userTableVars, apptTableVars,
                   pending, nextId>>

\* createAdminInvitation up to its first await, for the text of #inviteEmail.
createAdminInvitation(email) ==
    /\ location = AdminPage
    /\ domLoaded
    /\ IF ~validateEmail(email)
       THEN /\ last' = Shown("none", TRUE, "alert",
                             "Please enter a valid email address")
            /\ UNCHANGED <<pending, nextId>>
       ELSE /\ pending' = pending \cup
                {Await(nextId, "createAdminInvitation",
                       IF revision = "static" THEN "POST invitation"
                       ELSE "getIdToken",
                       Null, [NoArgs EXCEPT !.email = email])}
            /\ nextId' = nextId + 1
            /\ last' = NoCall
    /\ UNCHANGED <<gateVars, symptoms, sections, storeVars, domLoaded, userTableVars, apptTableVars,
                   invTableVars>>

\* Newer createAdminInvitation after await currentUser.getIdToken().
createAdminInvitationToken ==
    /\ \E p \in pending, ok \in BOOLEAN :
        /\ p.op = "createAdminInvitation" /\ p.step = "getIdToken"
        /\ IF ok
           THEN /\ pending' = (pending \ {p}) \cup
                    {[p EXCEPT !.step = "POST invitation"]}
                /\ last' = Shown("getIdToken create", TRUE, "none", "")
           ELSE /\ pending' = pending \ {p}
                /\ last' = Shown("getIdToken create", FALSE, "alert",
                                 "Failed to create invitation. Please try again.")
    /\ UNCHANGED <<gateVars, symptoms, sections, storeVars, domLoaded, userTableVars, apptTableVars,
                   invTableVars, nextId>>

\* POST /api/admin/invitation answered: created, refused, or no answer.
postInvitation ==
    /\ \E p \in pending, res \in {"ok", "refused", "error"} :
        /\ p.step = "POST invitation" /\ p.phase = "sent"
        /\ invitations' = IF res = "ok" THEN CreateInvitation(p.args.email)
                          ELSE invitations
        /\ pending' = (pending \ {p}) \cup
              {[p EXCEPT !.phase = "answered", !.ok = res # "error",
                         !.found = res = "ok",
                         !.code = IF res = "ok" THEN NewCode ELSE 0]}
    /\ UNCHANGED <<gateVars, symptoms, sections, users, appts, revision, api, others, domLoaded, userTableVars,
                   apptTableVars, invTableVars, nextId, last>>

\* createAdminInvitation after its request: data.success shows the code (the
\* newer revision copies it to the clipboard first) and lists again.
createAdminInvitationDone ==
    /\ \E p \in pending, copied \in BOOLEAN :
        /\ p.step = "POST invitation" /\ p.phase = "answered"
        /\ pending' = pending \ {p}
        /\ IF p.ok /\ p.found
           THEN /\ fetchAdminInvitationsCall(p.code)
                /\ last' = Shown("POST invitation", TRUE, "alert",
                                 IF revision = "newer" /\ copied
                                 THEN "Invitation code copied to clipboard!"
                                 ELSE "Invitation created! Code")
           ELSE /\ last' = Shown("POST invitation", FALSE, "alert",
                                 IF p.ok THEN "Error: message"
                                 ELSE "Failed to create invitation. Please try again.")
                /\ UNCHANGED invTableVars
    /\ UNCHANGED <<gateVars, symptoms, sections, storeVars, domLoaded, userTableVars, apptTableVars,
                   nextId>>

\* The store holds one appointment, in the date format of the revision.
InitAppts ==
    [a \in ApptIds |->
        IF a = ApptOrder[1]
        THEN Appt("u1", "u2", DateText("any", 2025, 3, 2, FALSE))
        ELSE NoAppt]

\* document DOMContentLoaded: loadDashboardData(); fetchUsers(); ...
DOMContentLoaded ==
    /\ location \in DashboardPages
    /\ ~domLoaded
    /\ domLoaded' = TRUE
    /\ IF location = AdminPage
       THEN fetchUsersCall /\ fetchAppointmentsCall /\ fetchAdminInvitationsCall(0)
       ELSE UNCHANGED <<userTableVars, apptTableVars, invTableVars>>
    /\ last' = NoCall
    /\ UNCHANGED <<gateVars, symptoms, sections, storeVars, pending, nextId>>

----------------------------------------------------------------------------
(* dashboard-auth.js: logout                                                *)

\* #logoutBtn click up to await signOut(auth).  The click is taken once the
\* page's gate has settled.
logout ==
    /\ location \in DashboardPages
    /\ domLoaded
    /\ gate \in {"proceed", "stay"}
    /\ pending' = pending \cup {Await(nextId, "logout", "signOut", Null, NoArgs)}
    /\ nextId' = nextId + 1
    /\ last' = NoCall
    /\ UNCHANGED <<gateVars, symptoms, sections, storeVars, domLoaded, userTableVars,
                   apptTableVars, invTableVars>>

\* signOut(auth) settles.  Signed out, the auth observer fires with no user
\* if there was one (its else branch sends GET /api/auth/check) and the
\* handler goes on to await fetch('/api/auth/logout'); failed, the handler
\* logs the error.
signOut ==
    /\ \E p \in pending, ok \in BOOLEAN :
        /\ p.op = "logout" /\ p.step = "signOut"
        /\ IF ok
           THEN /\ authUser' = "none"
                /\ IF authUser # "none"
                   THEN /\ gate' = "check"
                        /\ calls' = [calls EXCEPT !.check = @ + 1]
                   ELSE UNCHANGED <<gate, calls>>
                /\ pending' = (pending \ {p}) \cup
                      {Await(p.id, "logout", "POST logout", Null, NoArgs)}
                /\ last' = Shown("signOut", TRUE, "none", "")
           ELSE /\ pending' = pending \ {p}
                /\ last' = Shown("signOut", FALSE, "console", "")
                /\ UNCHANGED <<authUser, gate, calls>>
    /\ UNCHANGED <<location, entry, redirects, serverSession, localStorage,
                   gateRole, symptoms, sections, storeVars, domLoaded, userTableVars,
                   apptTableVars, invTableVars, nextId>>

\* POST /api/auth/logout as the backend handles it: the session is cleared.
AuthLogout(res) == IF res = "ok" THEN NoSession ELSE serverSession

\* The backend answers POST /api/auth/logout (with any status), or the
\* request fails.
postLogout ==
    /\ \E p \in pending, res \in {"ok", "notOk", "error"} :
        /\ p.step = "POST logout" /\ p.phase = "sent"
        /\ serverSession' = AuthLogout(res)
        /\ pending' = (pending \ {p}) \cup
              {[p EXCEPT !.phase = "answered", !.ok = res # "error",
                         !.found = res = "ok"]}
    /\ UNCHANGED <<location, entry, redirects, authUser, localStorage, gate,
                   gateRole, calls, symptoms, sections, storeVars, domLoaded,
                   userTableVars, apptTableVars, invTableVars, nextId, last>>

\* The click handler after await fetch('/api/auth/logout'): the cache is
\* cleared and the sign-in page opened, whatever the status; a failed request
\* is logged.
logoutDone ==
    /\ \E p \in pending :
        /\ p.step = "POST logout" /\ p.phase = "answered"
        /\ IF p.ok
           THEN /\ localStorage' = EmptyStorage
                /\ Navigate(SignInPage)
                /\ last' = Shown("POST logout", p.found, "redirect", "")
           ELSE /\ pending' = pending \ {p}
                /\ last' = Shown("POST logout", FALSE, "console", "")
                /\ UNCHANGED <<location, redirects, localStorage, gate, gateRole,
                               calls, symptoms, sections, domLoaded, userTableVars,
                               apptTableVars, invTableVars>>
    /\ UNCHANGED <<entry, authUser, serverSession, storeVars, nextId>>

\* window.DashboardAuth.hasPermission
Permissions == {"inventory", "prescriptions", "reports", "patients",
                "consultations", "learning", "resources", "progress",
                "assignments", "profile", "medications", "history",
                "appointments", "users", "analytics", "notifications",
                "security", "records"}

permissions ==
    [r \in Roles |->
        CASE r = "pharmacist" -> {"inventory", "prescriptions", "reports", "patients"}
          [] r = "doctor"     -> {"prescriptions", "patients", "reports", "consultations"}
          [] r = "student"    -> {"learning", "resources", "progress", "assignments"}
          [] r = "patient"    -> {"profile", "medications", "history", "appointments"}
          [] r = "admin"      -> {"users", "analytics", "notifications", "security",
                                  "records", "appointments", "prescriptions"}]

hasPermission(permission) ==
    /\ localStorage.userRole \in DOMAIN permissions
    /\ permission \in permissions[localStorage.userRole]

----------------------------------------------------------------------------
(* symptom checker page                                                     *)

SymptomPage == "symptom-checker.html"

SymptomInputs == {"", "   ", "fever"}

\* Answers of the AI proxy: {"response": text}.
AiResponses == {"rest", "**rest** and water"}

\* data.response.replace(/\*\*(.*?)\*\*/g, "<strong>$1</strong>")
formatted(response) ==
    IF response = "**rest** and water" THEN "<strong>rest</strong> and water"
    ELSE response

\* checkSymptoms() up to fetch("/symptom_checker", ...).
checkSymptoms(text) ==
    /\ location = SymptomPage
    /\ symptoms.button = "enabled"
    /\ IF trim(text) = ""
       THEN /\ last' = Shown("none", TRUE, "alert", "Please enter some symptoms.")
            /\ UNCHANGED symptoms
       ELSE /\ symptoms' = [button |-> "disabled", result |-> "none",
                            aiResponse |-> "", request |-> "sent",
                            response |-> ""]
            /\ last' = NoCall
    /\ UNCHANGED <<gateVars, sections, storeVars, domLoaded, userTableVars, apptTableVars,
                   invTableVars, pending, nextId>>

\* POST /symptom_checker is answered with a response text, with a body that
\* is not such JSON, or the request fails.
symptomChecker ==
    /\ symptoms.request = "sent"
    /\ \E res \in {"ok", "noResponse", "error"}, text \in AiResponses :
        symptoms' = [symptoms EXCEPT !.request = res,
                                     !.response = IF res = "ok" THEN text ELSE ""]
    /\ UNCHANGED <<gateVars, sections, storeVars, domLoaded, userTableVars, apptTableVars,
                   invTableVars, pending, nextId, last>>

\* Callbacks without the finally: the button stays as it is.
checkSymptomsDoneNoFinally ==
    /\ symptoms.request \in {"ok", "noResponse", "error"}
    /\ symptoms' = [button |-> IF symptoms.request = "ok" THEN "enabled"
                               ELSE symptoms.button,
                    result |-> "block",
                    aiResponse |-> IF symptoms.request = "ok"
                                   THEN formatted(symptoms.response)
                                   ELSE "An error occurred while analyzing symptoms.",
                    request |-> "none", response |-> ""]
    /\ last' = Shown("symptom_checker", symptoms.request = "ok", "inline", "")
    /\ UNCHANGED <<gateVars, sections, storeVars, domLoaded, userTableVars, apptTableVars,
                   invTableVars, pending, nextId>>

\* The then / catch / finally callbacks of checkSymptoms.
checkSymptomsDone ==
    /\ symptoms.request \in {"ok", "noResponse", "error"}
    /\ symptoms' = [button |-> "enabled", result |-> "block",
                    aiResponse |-> IF symptoms.request = "ok"
                                   THEN formatted(symptoms.response)
                                   ELSE "An error occurred while analyzing symptoms.",
                    request |-> "none", response |-> ""]
    /\ last' = Shown("symptom_checker", symptoms.request = "ok", "inline", "")
    /\ UNCHANGED <<gateVars, sections, storeVars, domLoaded, userTableVars, apptTableVars,
                   invTableVars, pending, nextId>>

----------------------------------------------------------------------------
(* AI-proxy endpoints of the backend (docs/API.md)                          *)

Endpoints == {"/get_drug_info", "/symptom_checker"}

\* The field an endpoint requires: drug_name, symptoms.  Its value in a
\* request body: Absent when the body has no such field, or a string.
FieldValues == {Absent, "", "aspirin"}

\* Requests served one after the other.
MaxApi == 2

\* AI requests: 3 attempts, each with a timeout.
MaxAttempts == 3

\* The error envelope {"error": true, "message", "status_code", ...} and the
\* success body {"response": text}.
Envelope(code) == [status |-> code, error |-> TRUE, response |-> ""]
Success(text) == [status |-> 200, error |-> FALSE, response |-> text]
NoReply == [status |-> 0, error |-> FALSE, response |-> ""]

NoApi == [endpoint |-> Null, value |-> Null, phase |-> "idle", attempts |-> 0,
          reply |-> NoReply, served |-> 0]

\* A client posts a body to an endpoint.
apiRequest(endpoint, value) ==
    /\ api.phase \in {"idle", "done"}
    /\ api.served < MaxApi
    /\ api' = [endpoint |-> endpoint, value |-> value, phase |-> "received",
               attempts |-> 0, reply |-> NoReply, served |-> api.served + 1]
    /\ UNCHANGED <<gateVars, pageVars, users, appts, revision, invitations,
                   others, nextId, last>>

\* An endpoint that asks the AI service whatever the body holds.
apiValidateNever ==
    /\ api.phase = "received"
    /\ api' = [api EXCEPT !.phase = "ai"]
    /\ UNCHANGED <<gateVars, pageVars, users, appts, revision, invitations,
                   others, nextId, last>>

\* The endpoint validates the body: a missing field is answered 400 at once
\* (an empty string may or may not count as missing).
apiValidate ==
    /\ api.phase = "received"
    /\ \E emptyIsMissing \in BOOLEAN :
        IF api.value = Absent \/ (api.value = "" /\ emptyIsMissing)
        THEN api' = [api EXCEPT !.phase = "done", !.reply = Envelope(400)]
        ELSE api' = [api EXCEPT !.phase = "ai"]
    /\ UNCHANGED <<gateVars, pageVars, users, appts, revision, invitations,
                   others, nextId, last>>

\* An endpoint that gives up at the first attempt that times out.
aiCallOnce ==
    /\ api.phase = "ai"
    /\ \E out \in AiResponses \cup {"timeout"} :
        api' = IF out # "timeout"
               THEN [api EXCEPT !.attempts = @ + 1, !.phase = "done",
                                !.reply = Success(out)]
               ELSE [api EXCEPT !.attempts = @ + 1, !.phase = "done",
                                !.reply = Envelope(503)]
    /\ UNCHANGED <<gateVars, pageVars, users, appts, revision, invitations,
                   others, nextId, last>>

\* One attempt on the AI service: its text is returned with 200; a timeout
\* is tried again, and answered 503 at the last attempt.
aiCall ==
    /\ api.phase = "ai"
    /\ \E out \in AiResponses \cup {"timeout"} :
        api' = IF out # "timeout"
               THEN [api EXCEPT !.attempts = @ + 1, !.phase = "done",
                                !.reply = Success(out)]
               ELSE IF api.attempts + 1 >= MaxAttempts
               THEN [api EXCEPT !.attempts = @ + 1, !.phase = "done",
                                !.reply = Envelope(503)]
               ELSE [api EXCEPT !.attempts = @ + 1]
    /\ UNCHANGED <<gateVars, pageVars, users, appts, revision, invitations,
                   others, nextId, last>>

\* C12: POST /get_drug_info with a body that has no drug_name is answered
\* 400 with the error envelope, and no attempt on the AI service is made for
\* it.
DrugInfoMissingName ==
    (api.endpoint = "/get_drug_info" /\ api.value = Absent)
        => /\ api.attempts = 0
           /\ api.phase # "ai"
           /\ api.phase = "done" => api.reply = Envelope(400)

\* C12 witness: such a request has been answered.
DrugInfoMissingNameWitness ==
    /\ api.endpoint = "/get_drug_info" /\ api.value = Absent
    /\ api.phase = "done"
    /\ api.reply.status = 400 /\ api.reply.error

InitApi ==
    /\ location = SymptomPage
    /\ entry = SymptomPage
    /\ redirects = 0
    /\ authUser = "none"
    /\ serverSession = NoSession
    /\ localStorage = EmptyStorage
    /\ gate = "idle"
    /\ gateRole = Null
    /\ calls = NoCalls
    /\ users = [u \in Uids |-> IF u = AuthUid THEN "admin" ELSE "patient"]
    /\ appts = InitAppts
    /\ revision \in {"static", "newer"}
    /\ domLoaded = TRUE
    /\ usersTable = <<>>
    /\ userFetches = <<>>
    /\ apptsTable = <<>>
    /\ apptFetches = <<>>
    /\ invitations = InitInvitations
    /\ api = NoApi
    /\ others = {}
    /\ invTable = <<>>
    /\ invFetches = <<>>
    /\ pending = {}
    /\ symptoms = NoSymptoms
    /\ sections = NoSections
    /\ nextId = 1
    /\ last = NoCall

NextApi ==
    \/ \E endpoint \in Endpoints, value \in FieldValues :
          apiRequest(endpoint, value)
    \/ apiValidate
    \/ aiCall

SpecApi == InitApi /\ [][NextApi]_vars

----------------------------------------------------------------------------
(* A second admin session working on the same store                         *)

\* Edits the other session may have sent at once.
MaxOther == 1

\* An edit of the other session awaiting updateDoc.
OtherEdit(op, key, args) ==
    [op |-> op, key |-> key, args |-> args, phase |-> "sent", ok |-> TRUE]

\* editUser(userId) of the other session up to await updateDoc(...): the same
\* script, so the same validation.
otherEditUser(userId, newRole) ==
    /\ Cardinality(others) < MaxOther
    /\ users[userId] # Absent
    /\ ~(newRole = Null \/ newRole = "" \/ trim(newRole) = "")
    /\ toLowerCase(newRole) \in VALID_ROLES
    /\ others' = others \cup
          {OtherEdit("editUser", userId,
                     [NoArgs EXCEPT !.role = toLowerCase(newRole)])}
    /\ UNCHANGED <<gateVars, pageVars, users, appts, revision, invitations,
                   api, nextId, last>>

\* editAppointment(apptId) of the other session up to await updateDoc(...).
otherEditAppointment(apptId, newDate, lenient, west) ==
    /\ Cardinality(others) < MaxOther
    /\ Exists(appts[apptId])
    /\ editAppointmentCheck(revision, newDate, lenient, west) = ""
    /\ others' = others \cup
          {OtherEdit("editAppointment", apptId,
                     [NoArgs EXCEPT !.date = trimDate(newDate)])}
    /\ UNCHANGED <<gateVars, pageVars, users, appts, revision, invitations,
                   api, nextId, last>>

\* A store that refuses an update of a record the other session has an
\* update in flight for.
writeOtherGuarded ==
    /\ \E o \in others, ok \in BOOLEAN :
        /\ o.phase = "sent"
        /\ LET missing == IF o.op = "editUser" THEN users[o.key] = Absent
                          ELSE ~Exists(appts[o.key])
               conflict == \E p \in pending :
                              p.step = "updateDoc" /\ p.key = o.key
               applied == ok /\ ~missing /\ ~conflict
           IN  /\ users' = IF applied /\ o.op = "editUser"
                           THEN [users EXCEPT ![o.key] = o.args.role]
                           ELSE users
               /\ appts' = IF applied /\ o.op = "editAppointment"
                           THEN [appts EXCEPT ![o.key].date = o.args.date]
                           ELSE appts
               /\ others' = (others \ {o}) \cup
                     {[o EXCEPT !.phase = "answered", !.ok = applied]}
    /\ UNCHANGED <<gateVars, pageVars, revision, invitations, api, nextId,
                   last>>

\* The store applies an update of the other session (updateDoc fails on a
\* missing document), or the request fails.
writeOther ==
    /\ \E o \in others, ok \in BOOLEAN :
        /\ o.phase = "sent"
        /\ LET missing == IF o.op = "editUser" THEN users[o.key] = Absent
                          ELSE ~Exists(appts[o.key])
               applied == ok /\ ~missing
           IN  /\ users' = IF applied /\ o.op = "editUser"
                           THEN [users EXCEPT ![o.key] = o.args.role]
                           ELSE users
               /\ appts' = IF applied /\ o.op = "editAppointment"
                           THEN [appts EXCEPT ![o.key].date = o.args.date]
                           ELSE appts
               /\ others' = (others \ {o}) \cup
                     {[o EXCEPT !.phase = "answered", !.ok = applied]}
    /\ UNCHANGED <<gateVars, pageVars, revision, invitations, api, nextId,
                   last>>

\* Two admin sessions on the loaded admin dashboard: this page's edits and
\* the other session's.
InitSessions ==
    /\ location = AdminPage
    /\ entry = AdminPage
    /\ redirects = 0
    /\ authUser = "verified"
    /\ serverSession = [uid |-> AuthUid, role |-> "admin"]
    /\ localStorage = [userRole |-> "admin", userData |-> [role |-> "admin"]]
    /\ gate = "proceed"
    /\ gateRole = "admin"
    /\ calls = [getDoc |-> 1, login |-> 1, check |-> 0]
    /\ users = [u \in Uids |-> IF u = AuthUid THEN "admin" ELSE "patient"]
    /\ appts = InitAppts
    /\ revision \in {"static", "newer"}
    /\ domLoaded = TRUE
    /\ usersTable = UserRows(users)
    /\ userFetches = <<>>
    /\ apptsTable = ApptRows(revision, appts)
    /\ apptFetches = <<>>
    /\ invitations = InitInvitations
    /\ api = NoApi
    /\ others = {}
    /\ invTable = InvitationRows(invitations)
    /\ invFetches = <<>>
    /\ pending = {}
    /\ symptoms = NoSymptoms
    /\ sections = NoSections
    /\ nextId = 1
    /\ last = NoCall

\* Updates this page may have started.
MaxEdits == 1

\* What the two admins type: roles and dates of which two are accepted and
\* one is not.
SessionRoles == {"doctor", "PHARMACIST", "nurse"}
SessionDates ==
    {DateText("4-2-2", 2024, 12, 31, FALSE), DateText("4-2-2", 2025, 3, 1, FALSE),
     DateText("4-2-2", 2025, 3, 2, FALSE), DateText("2-2-4", 31, 12, 2024, FALSE),
     DateText("2-2-4", 1, 3, 2025, FALSE), DateText("2-2-4", 2, 3, 2025, FALSE)}

NextSessions ==
    \/ nextId <= MaxEdits /\ \E userId \in Uids, newRole \in SessionRoles :
          editUser(userId, newRole)
    \/ nextId <= MaxEdits
          /\ \E apptId \in ApptIds, newDate \in SessionDates, lenient \in BOOLEAN,
                west \in BOOLEAN : editAppointment(apptId, newDate, lenient, west)
    \/ writeUsers
    \/ writeAppointments
    \/ editUserDone
    \/ editAppointmentDone
    \/ getDocsUsers
    \/ fetchUsers
    \/ getDocsAppointments
    \/ fetchAppointments
    \/ \E userId \in Uids, newRole \in SessionRoles : otherEditUser(userId, newRole)
    \/ \E apptId \in ApptIds, newDate \in SessionDates, lenient \in BOOLEAN,
          west \in BOOLEAN : otherEditAppointment(apptId, newDate, lenient, west)
    \/ writeOther

SpecSessions == InitSessions /\ [][NextSessions]_vars

\* An update as the store acknowledges it.
Acknowledged(w) == [w EXCEPT !.phase = "answered", !.ok = TRUE]

\* The updates in flight, of this page and of the other session.
EditsSent == {p \in pending : p.step = "updateDoc" /\ p.phase = "sent"}
OtherSent == {o \in others : o.phase = "sent"}

\* The record update w is for holds w's value after the step.
Holds(w) ==
    IF w.op = "editUser" THEN users'[w.key] = w.args.role
    ELSE appts'[w.key].date = w.args.date

\* The record update w is for exists.
Present(w) ==
    IF w.op = "editUser" THEN users[w.key] # Absent ELSE Exists(appts[w.key])

\* C14: with two sessions editing the same record, an update in flight for
\* an existing record can always be applied and acknowledged, whatever the
\* other session has written or has in flight; an acknowledged update leaves
\* its value in the record; and a record changes only by an update being
\* acknowledged: so the record holds the value of the update applied last.
NeverRefused ==
    /\ \A p \in EditsSent :
          Present(p) => ENABLED ((writeUsers \/ writeAppointments)
                                    /\ Acknowledged(p) \in pending')
    /\ \A o \in OtherSent :
          Present(o) => ENABLED (writeOther /\ Acknowledged(o) \in others')

AppliedLast ==
    /\ \A p \in EditsSent :
          (Acknowledged(p) \in pending' /\ Acknowledged(p) \notin pending)
              => Holds(p)
    /\ \A o \in OtherSent :
          (Acknowledged(o) \in others' /\ Acknowledged(o) \notin others)
              => Holds(o)
    /\ \A u \in Uids :
          users'[u] # users[u]
              => \/ \E p \in EditsSent :
                      p.key = u /\ p.op = "editUser" /\ Acknowledged(p) \in pending'
                 \/ \E o \in OtherSent :
                      o.key = u /\ o.op = "editUser" /\ Acknowledged(o) \in others'
    /\ \A a \in ApptIds :
          appts'[a] # appts[a]
              => \/ \E p \in EditsSent :
                      p.key = a /\ p.op = "editAppointment" /\ Acknowledged(p) \in pending'
                 \/ \E o \in OtherSent :
                      o.key = a /\ o.op = "editAppointment"
                         /\ Acknowledged(o) \in others'

LastWriteWins == []NeverRefused /\ [][AppliedLast]_vars

\* C14 witness: both sessions edited the role of the same user; this page's
\* update was acknowledged, and the record holds the other session's role,
\* acknowledged as well.
LastWriteWinsWitness ==
    \E p \in pending, o \in others :
        /\ p.op = "editUser" /\ p.phase = "answered" /\ p.ok
        /\ o.op = "editUser" /\ o.phase = "answered" /\ o.ok
        /\ o.key = p.key
        /\ o.args.role # p.args.role
        /\ users[p.key] = o.args.role

----------------------------------------------------------------------------
(* Logout from a dashboard the gate has let the user onto                   *)

\* Clicks on #logoutBtn.
MaxClicks == 2

\* A verified user on the dashboard of the stored role, session mirrored and
\* cache written; or a user without verified sign-in whom the session check
\* let stay.
InitLogout ==
    /\ location \in DashboardPages
    /\ entry = location
    /\ redirects = 0
    /\ users = [u \in Uids |-> IF u = AuthUid THEN getCurrentPageRole(location)
                               ELSE "patient"]
    /\ serverSession = [uid |-> AuthUid, role |-> users[AuthUid]]
    /\ \/ /\ authUser = "verified"
          /\ gate = "proceed"
          /\ gateRole = users[AuthUid]
          /\ calls = [getDoc |-> 1, login |-> 1, check |-> 0]
          /\ localStorage = [userRole |-> users[AuthUid],
                             userData |-> [role |-> users[AuthUid]]]
       \/ /\ authUser \in {"none", "unverified"}
          /\ gate = "stay"
          /\ gateRole = Null
          /\ calls = [getDoc |-> 0, login |-> 0, check |-> 1]
          /\ localStorage \in {EmptyStorage,
                               [userRole |-> users[AuthUid],
                                userData |-> [role |-> users[AuthUid]]]}
    /\ appts = InitAppts
    /\ revision = "static"
    /\ domLoaded = TRUE
    /\ usersTable = IF location = AdminPage THEN UserRows(users) ELSE <<>>
    /\ userFetches = <<>>
    /\ apptsTable = IF location = AdminPage THEN ApptRows(revision, appts) ELSE <<>>
    /\ apptFetches = <<>>
    /\ invitations = InitInvitations
    /\ api = NoApi
    /\ others = {}
    /\ invTable = IF location = AdminPage THEN InvitationRows(invitations) ELSE <<>>
    /\ invFetches = <<>>
    /\ pending = {}
    /\ symptoms = NoSymptoms
    /\ sections = NoSections
    /\ nextId = 1
    /\ last = NoCall

NextLogout ==
    \/ nextId <= MaxClicks /\ logout
    \/ signOut
    \/ postLogout
    \/ logoutDone
    \/ checkServerSession

SpecLogout == InitLogout /\ [][NextLogout]_vars

\* The logout request is sent only once signOut has succeeded.
SignOutFirst == \A p \in pending : p.step = "POST logout" => authUser = "none"

\* The cache is only ever cleared, by the handler resumed after the logout
\* request was answered, in the step that opens the sign-in page.
ClearThenRedirect ==
    localStorage' # localStorage
        => /\ \E p \in pending : /\ p.step = "POST logout"
                                 /\ p.phase = "answered" /\ p.ok
           /\ localStorage' = EmptyStorage
           /\ location' = SignInPage

\* With every call answered successfully the page ends on the sign-in page
\* with an empty cache.
EndsSignedOut == (location = SignInPage /\ last.ok) => localStorage = EmptyStorage

\* C15: on a logout click where every call succeeds: signOut, then
\* POST /api/auth/logout, then the cache is cleared, then the redirect; the
\* page ends on sisu.html with an empty cache.
LogoutOrder == [](SignOutFirst /\ EndsSignedOut) /\ [][ClearThenRedirect]_vars

\* The click handler has caught a failure of signOut or of the logout request.
LogoutFailed ==
    /\ last.call \in {"signOut", "POST logout"}
    /\ ~last.ok /\ last.shown = "console"

\* C21: when signOut or POST /api/auth/logout fails, the cache is not
\* cleared and no redirect happens, neither in the step that catches the
\* failure nor after it (until a further click is answered): hasPermission
\* keeps answering for the old role on the same page.
LogoutFailureStays ==
    [][(LogoutFailed' \/ (LogoutFailed /\ last'.call # "POST logout"))
        => /\ location' = location
           /\ localStorage' = localStorage
           /\ \A perm \in Permissions : hasPermission(perm)' = hasPermission(perm)]_vars

----------------------------------------------------------------------------
(* sign-in page: section toggles                                            *)

Controls == {"signUpButton", "signInButton", "recoverPasswordLink", "backToSignIn"}

\* DOMContentLoaded of the sign-in page: the click handlers are attached.
signInDOMContentLoaded ==
    /\ location = SignInPage
    /\ ~domLoaded
    /\ domLoaded' = TRUE
    /\ last' = NoCall
    /\ UNCHANGED <<gateVars, symptoms, sections, storeVars, userTableVars,
                   apptTableVars, invTableVars, pending, nextId>>

\* The click handler of a control has set display to the three sections.
Display(control, signIn, signup, recoverPassword) ==
    /\ location = SignInPage
    /\ domLoaded
    /\ sections' = [signIn |-> signIn, signup |-> signup,
                    recoverPassword |-> recoverPassword, clicked |-> control]
    /\ last' = NoCall
    /\ UNCHANGED <<gateVars, symptoms, storeVars, domLoaded, userTableVars,
                   apptTableVars, invTableVars, pending, nextId>>

signUpButton == Display("signUpButton", "none", "block", "none")

signInButton == Display("signInButton", "block", "none", "none")

recoverPasswordLink == Display("recoverPasswordLink", "none", "none", "block")

\* A back link that leaves the recovery section as it is.
backToSignInKeeps ==
    Display("backToSignIn", "block", "none", sections.recoverPassword)

backToSignIn == Display("backToSignIn", "block", "none", "none")

\* Logout ends on the sign-in page, where the controls are clicked.
NextSignIn ==
    \/ NextLogout
    \/ signInDOMContentLoaded
    \/ signUpButton
    \/ signInButton
    \/ recoverPasswordLink
    \/ backToSignIn

SpecSignIn == InitLogout /\ [][NextSignIn]_vars

\* The section a control opens.
SectionOf(control) ==
    CASE control = "signUpButton"        -> "signup"
      [] control = "signInButton"        -> "signIn"
      [] control = "recoverPasswordLink" -> "recoverPassword"
      [] control = "backToSignIn"        -> "signIn"

SectionNames == {"signIn", "signup", "recoverPassword"}

\* C28: once a control of the sign-in page was clicked, exactly one of the
\* three sections is displayed, the other two are hidden, and the one
\* displayed is the section of the control clicked last.
OneSectionShown ==
    sections.clicked \in Controls
        => \A name \in SectionNames :
              sections[name] = IF name = SectionOf(sections.clicked)
                               THEN "block" ELSE "none"

\* C28 witness: the back link was clicked; the sign-in section is the one
\* displayed.
OneSectionShownWitness ==
    /\ location = SignInPage
    /\ sections.clicked = "backToSignIn"
    /\ sections.signIn = "block"
    /\ sections.signup = "none" /\ sections.recoverPassword = "none"

----------------------------------------------------------------------------
(* The appointments table of the newer admin dashboard                      *)

\* Handler invocations while the names are being resolved.
MaxNameOps == 1

InitNames ==
    /\ location = AdminPage
    /\ entry = AdminPage
    /\ redirects = 0
    /\ authUser = "verified"
    /\ serverSession = NoSession
    /\ localStorage = EmptyStorage
    /\ gate = "sync"
    /\ gateRole = "admin"
    /\ calls = [getDoc |-> 1, login |-> 1, check |-> 0]
    /\ users = [u \in Uids |-> IF u = AuthUid THEN "admin" ELSE "patient"]
    /\ appts = InitAppts
    /\ revision = "newer"
    /\ domLoaded = FALSE
    /\ usersTable = <<>>
    /\ userFetches = <<>>
    /\ apptsTable = <<>>
    /\ apptFetches = <<>>
    /\ invitations = InitInvitations
    /\ api = NoApi
    /\ others = {}
    /\ invTable = <<>>
    /\ invFetches = <<>>
    /\ pending = {}
    /\ symptoms = NoSymptoms
    /\ sections = NoSections
    /\ nextId = 1
    /\ last = NoCall

\* Page load, the two tables, a user deleted and an appointment moved while
\* the names of the appointment rows are looked up.
NextNames ==
    \/ DOMContentLoaded
    \/ getDocsUsers
    \/ fetchUsers
    \/ getDocsAppointments
    \/ fetchAppointments
    \/ \E i \in 1..MaxRows, cell \in NameCells : getUserNameByIdThen(i, cell)
    \/ nextId <= MaxNameOps /\ \E userId \in Uids : deleteUser(userId, TRUE)
    \/ writeUsers
    \/ deleteUserDone
    \/ nextId <= MaxNameOps
          /\ \E apptId \in ApptIds :
                editAppointment(apptId, DateText("2-2-4", 2, 3, 2025, FALSE), FALSE, FALSE)
    \/ writeAppointments
    \/ editAppointmentDone

\* Every getDoc of a name lookup settles, and its callback runs.
FairNames ==
    \A i \in 1..MaxRows, cell \in NameCells : WF_vars(getUserNameByIdThen(i, cell))

SpecNames == InitNames /\ [][NextNames]_vars /\ FairNames

Placeholder(i, cell) ==
    /\ i \in 1..Len(apptsTable)
    /\ apptsTable[i][cell] = "Loading..."

\* The callback of a cell puts the full name where the user document exists
\* with a name that is not blank, and the id the row was created with
\* wherever it puts something else.
NameOrId ==
    \A i \in 1..MaxRows, cell \in NameCells :
        (Placeholder(i, cell) /\ i \in 1..Len(apptsTable')
            /\ apptsTable'[i][cell] # "Loading...")
        => LET uid == IF cell = "patient" THEN apptsTable[i].patientId
                      ELSE apptsTable[i].doctorId
               shown == apptsTable'[i][cell]
           IN  /\ shown # uid
                    => /\ uid \in Uids /\ users[uid] # Absent
                       /\ shown = FullName(firstName[uid], lastName[uid])
               /\ shown # ""

\* C26: in the newer admin dashboard every patient and doctor cell leaves
\* 'Loading...'; it then shows the full name of an existing user document
\* whose name is not blank, and the raw id otherwise.
NamesResolved ==
    /\ \A i \in 1..MaxRows, cell \in NameCells :
          Placeholder(i, cell) ~> ~Placeholder(i, cell)
    /\ [][NameOrId]_vars

\* C26 witness: the patient cell shows a full name and the doctor cell, whose
\* user document has a blank name, the id.
NamesResolvedWitness ==
    /\ revision = "newer"
    /\ Len(apptsTable) >= 1
    /\ apptsTable[1].patient = "Ann Lee"
    /\ apptsTable[1].doctor = apptsTable[1].doctorId
    /\ users[apptsTable[1].doctorId] # Absent

----------------------------------------------------------------------------
(* Properties of the session gate                                           *)

StoredRole == users[AuthUid]

\* C1: when the gate of a verified user has read the stored role R (one of
\* the five roles) and settles, the page stays and the gate proceeds if the
\* page is R's dashboard, and the page becomes R's dashboard otherwise.
RoleGate ==
    [][(gate = "sync" /\ gate' # "sync" /\ StoredRole \in Roles)
        => IF location = ROLE_ROUTES[StoredRole]
           THEN location' = location /\ gate' = "proceed" /\ redirects' = redirects
           ELSE location' = ROLE_ROUTES[StoredRole] /\ redirects' = redirects + 1]_vars

\* C1 witness: a role mismatch redirected to the role's dashboard, and the
\* gate of that page let the user in without a further redirect.
RoleGateWitness ==
    /\ gate = "proceed"
    /\ redirects = 1
    /\ entry # location
    /\ location = ROLE_ROUTES[StoredRole]

\* C2: the dashboard's record fetches are issued only once the gate has
\* validated the user's role for the page.
FetchAfterGate ==
    (userFetches # <<>> \/ apptFetches # <<>> \/ invFetches # <<>>)
        => gate = "proceed"

\* C3 as stated: every failed lookup or network call of the gate, the session
\* sync included, ends on the sign-in page.
GateFailureSignIn ==
    (last.call \in {"getDoc", "login", "check"} /\ ~last.ok)
        => location = SignInPage

\* C3 amended: a failed or empty profile read and a failed or negative
\* session check end on the sign-in page; a failed session sync does not,
\* the gate goes on to the role comparison; no call is issued twice on a page.
GateFailure ==
    /\ (last.call = "getDoc" /\ ~last.ok) => location = SignInPage
    /\ (last.call = "check" /\ (~last.ok \/ ~AuthCheck)) => location = SignInPage
    /\ (last.call = "login" /\ ~last.ok)
          => location = IF StoredRole \in Roles THEN ROLE_ROUTES[StoredRole]
                        ELSE SignInPage
    /\ \A c \in DOMAIN calls : calls[c] <= 1

\* C3 witness: the session sync failed and the gate let the user in.
GateFailureWitness ==
    /\ last.call = "login" /\ ~last.ok
    /\ gate = "proceed"
    /\ location = entry

\* What verifyAccess does with the role it read, on the page it runs on.
GateOutcome ==
    IF gateRole = getCurrentPageRole(location)
    THEN /\ location' = location /\ redirects' = redirects
         /\ gate' = "proceed"
         /\ localStorage'.userRole = gateRole
    ELSE /\ location' = IF gateRole \in Roles THEN ROLE_ROUTES[gateRole]
                        ELSE SignInPage
         /\ redirects' = redirects + 1
         /\ localStorage' = localStorage

\* C16: when the session sync fails or is answered with a non-OK status,
\* verifyAccess goes on and its outcome is the one of a successful sync;
\* only the server session is not mirrored.
SyncFailureContinues ==
    [][(gate = "sync" /\ last'.call = "login")
        => /\ GateOutcome
           /\ serverSession' = IF last'.ok THEN [uid |-> AuthUid, role |-> gateRole]
                                ELSE serverSession]_vars

\* C16 witness: the sync failed on the page of another role, and the gate
\* redirected to the dashboard of the stored role.
SyncFailureContinuesWitness ==
    /\ last.call = "login" /\ ~last.ok
    /\ redirects = 1 /\ gate = "idle"
    /\ StoredRole \in Roles
    /\ location = ROLE_ROUTES[StoredRole]
    /\ location # entry

\* localStorage after setItem('userRole', ...) and setItem('userData', ...).
Cached(role) == [userRole |-> role, userData |-> [role |-> role]]

CacheWrittenOnProceed ==
    localStorage' # localStorage
        => /\ gate = "sync" /\ gate' = "proceed"
           /\ localStorage' = Cached(StoredRole)

CacheKeptOtherwise ==
    (gate \in {"getDoc", "sync"} /\ gate' # "proceed")
        => localStorage' = localStorage

\* C17: userRole and userData are written only where verifyAccess proceeds,
\* and then hold the role and profile read from the store; where it
\* redirects or fails the cache is left as it was.
CacheOnProceedOnly ==
    /\ [](gate = "proceed" => localStorage = Cached(StoredRole))
    /\ [][CacheWrittenOnProceed /\ CacheKeptOtherwise]_vars

\* C17 witness: the gate redirected for a role mismatch with the cache of an
\* earlier user still in place, then proceeded and replaced it.
CacheOnProceedOnlyWitness ==
    /\ gate = "proceed"
    /\ redirects = 1
    /\ StoredRole # "patient"
    /\ localStorage = Cached(StoredRole)

\* The role comparison of verifyAccess sends the page elsewhere.
MismatchRedirect == gate = "sync" /\ redirects' # redirects

\* C18: for a verified user whose stored role is one of the five, the role
\* comparison redirects at most once, from the page the user entered on to
\* the dashboard of the stored role, and the gate of that page proceeds.
NoRedirectLoop ==
    [][(StoredRole \in Roles)
        => ((MismatchRedirect
                => (/\ redirects = 0 /\ location = entry
                    /\ location' = ROLE_ROUTES[StoredRole]
                    /\ getCurrentPageRole(location') = StoredRole))
            /\ ((gate = "sync" /\ gate' # gate /\ redirects >= 1)
                => (gate' = "proceed" /\ location' = location)))]_vars

\* C18 witness: entered on the dashboard of another role, redirected once,
\* and let in by the gate of the page reached.
NoRedirectLoopWitness ==
    /\ authUser = "verified"
    /\ StoredRole \in Roles
    /\ getCurrentPageRole(entry) # StoredRole
    /\ getCurrentPageRole(location) = StoredRole
    /\ redirects = 1
    /\ calls.login = 1
    /\ gate = "proceed"

\* The profile document exists: the POST is sent, the comparison is yet to come.
LoginSent ==
    (gate = "getDoc" /\ last'.call = "getDoc" /\ last'.ok)
        => /\ calls'.login = calls.login + 1
           /\ gate' = "sync" /\ gateRole' = StoredRole
           /\ location' = location /\ localStorage' = localStorage

\* The comparison comes with the POST answered; an accepted POST has left
\* the session of the stored role, whatever the comparison then does.
LoginBeforeComparison ==
    (gate = "sync" /\ gate' # gate)
        => /\ calls.login = 1
           /\ last'.call = "login"
           /\ last'.ok => serverSession' = [uid |-> AuthUid, role |-> StoredRole]

\* C19: when the profile document exists, POST /api/auth/login with the uid
\* and the stored role is sent before the role comparison, so that the
\* server session is mirrored also where the page redirects for a mismatch.
SessionMirroredFirst == [][LoginSent /\ LoginBeforeComparison]_vars

\* C19 witness: the role comparison redirected, and the server holds the
\* session of the stored role.
SessionMirroredFirstWitness ==
    /\ last.call = "login" /\ last.ok
    /\ gate = "idle" /\ location # entry
    /\ StoredRole # "patient"
    /\ serverSession = [uid |-> AuthUid, role |-> StoredRole]

\* The else branch of the observer is taken for no user and for a user whose
\* email is not verified, and issues neither getDoc nor the session sync.
ElseBranchOnly ==
    /\ gate \in {"check", "stay"} => authUser # "verified"
    /\ (authUser # "verified" /\ location \in DashboardPages)
          => /\ gate \in {"idle", "check", "stay"}
             /\ calls.getDoc = 0 /\ calls.login = 0
             /\ gateRole = Null

SessionCheckAnswered ==
    (gate = "check" /\ gate' # gate)
        => IF last'.ok /\ AuthCheck
           THEN /\ gate' = "stay"
                /\ location' = location /\ redirects' = redirects
           ELSE location' = SignInPage

\* C20: with no user, or a user whose email is not verified, the page goes
\* to sisu.html unless GET /api/auth/check answers authenticated = true;
\* then it stays on the dashboard, whatever role the page requires.
StayOnServerSession == []ElseBranchOnly /\ [][SessionCheckAnswered]_vars

\* C20 witness: nobody is signed in, the server session is of one role and
\* the page stays on the dashboard of another.
StayOnServerSessionWitness ==
    /\ authUser = "none"
    /\ gate = "stay"
    /\ last.call = "check"
    /\ location \in DashboardPages
    /\ serverSession.role # getCurrentPageRole(location)

----------------------------------------------------------------------------
(* Properties of the admin dashboard                                        *)

\* The day a date text names, read in the format of the revision.
Ymd(rev, text) ==
    IF rev = "static" THEN <<text.a, text.b, text.c>>
    ELSE <<text.c, text.b, text.a>>

\* The text is a well-formed date of the revision and names a day of the
\* calendar.
CalendarDay(rev, text) ==
    /\ text.shape = IF rev = "static" THEN "4-2-2" ELSE "2-2-4"
    /\ ~text.pad
    /\ Ymd(rev, text)[2] \in 1..12
    /\ Ymd(rev, text)[3] >= 1
    /\ Ymd(rev, text)[3] <= DaysInMonth(Ymd(rev, text)[1], Ymd(rev, text)[2])

\* ... and that day is before today.
PastDay(rev, text) ==
    LET t == Ymd(rev, text)
        n == <<Today.year, Today.month + 1, Today.day>>
    IN  /\ CalendarDay(rev, text)
        /\ \/ t[1] < n[1]
           \/ t[1] = n[1] /\ t[2] < n[2]
           \/ t[1] = n[1] /\ t[2] = n[2] /\ t[3] < n[3]

\* The write requests addAppointment and editAppointment have in flight.
DateWrites ==
    {p \in pending : /\ p.op \in {"addAppointment", "editAppointment"}
                     /\ p.step \in {"addDoc", "updateDoc"}}

\* C4: addAppointment and editAppointment send no write for a date before
\* today.
NoPastDateWritten == \A p \in DateWrites : ~PastDay(revision, p.args.date)

\* C5: every date addAppointment and editAppointment write is a day of the
\* calendar.
OnlyCalendarDatesWritten == \A p \in DateWrites : CalendarDay(revision, p.args.date)

RoleEnumeration == {"admin", "doctor", "student", "patient", "pharmacist"}

\* C6: every role editUser sends to the store, and so every role of a user
\* record it has written, is one of the five lower-case roles.
EditUserRoles ==
    /\ \A p \in pending : p.op = "editUser" => p.args.role \in RoleEnumeration
    /\ \A u \in Uids : users[u] \in RoleEnumeration \cup {Absent}

\* C6 witness: the role typed in capitals has been written in lower case.
EditUserRolesWitness ==
    \E p \in pending :
        /\ p.op = "editUser" /\ p.phase = "answered" /\ p.ok
        /\ p.args.role = "pharmacist"
        /\ users[p.key] = "pharmacist"

\* u was deleted from the store and deleteUser(u) has been resumed.
Deleted(u) ==
    /\ users[u] = Absent
    /\ \A p \in pending : ~(p.op = "deleteUser" /\ p.key = u)

HasRow(table, u) == \E i \in 1..Len(table) : table[i][1] = u

\* C7: once deleteUser(u) has succeeded, a fetch of the users table that
\* completes leaves no row for u in the table.
DeletedUserNotRendered ==
    [][\A u \in Uids :
        (Deleted(u) /\ Len(userFetches') < Len(userFetches))
            => ~HasRow(usersTable', u)]_vars

\* An invitation the backend has created comes back with its code and is
\* stored unused.
CreatedCode ==
    \A p \in pending :
        (p.op = "createAdminInvitation" /\ p.phase = "answered" /\ p.found)
            => /\ p.code # 0
               /\ \E i \in 1..Len(invitations) :
                     invitations[i] = Invitation(p.args.email, p.code, FALSE)

\* The listing fetched after a creation holds an entry with the created code
\* and used = false.
ListedAfter ==
    \A i \in 1..Len(invFetches) :
        (invFetches[i].phase = "answered" /\ invFetches[i].ok
                /\ invFetches[i].created # 0)
            => \E j \in 1..Len(invFetches[i].snap) :
                  /\ invFetches[i].snap[j].code = invFetches[i].created
                  /\ ~invFetches[i].snap[j].used

\* Displaying that listing shows the created code as 'Active'.
ShownActive ==
    \A i \in 1..Len(invFetches) :
        (/\ invFetches[i].phase = "answered" /\ invFetches[i].ok
         /\ invFetches[i].created # 0
         /\ invFetches' = RemoveAt(invFetches, i)
         /\ last'.call = "GET invitations")
            => \E r \in 1..Len(invTable') :
                  /\ invTable'[r].code = invFetches[i].created
                  /\ invTable'[r].status = "Active"

\* C8: creating an invitation for a valid e-mail returns its code, and the
\* listing fetched afterwards contains an entry with that code and
\* used = false, shown with status 'Active'.
InvitationListed == [](CreatedCode /\ ListedAfter) /\ [][ShownActive]_vars

\* C8 witness: the listing fetched after a creation has been displayed and
\* shows the new code as 'Active'.
InvitationListedWitness ==
    /\ last.call = "GET invitations" /\ last.ok
    /\ \E r \in 1..Len(invTable) :
          /\ invTable[r].code = Len(InitInvitations) + 1
          /\ invTable[r].status = "Active"
          /\ validateEmail(invTable[r].email)

AlertedCalls ==
    {"updateDoc users", "deleteDoc users", "addDoc appointments",
     "updateDoc appointments", "deleteDoc appointments", "getDoc patients",
     "getDoc doctors", "getIdToken create", "POST invitation"}
InlineCalls == {"getDocs users", "getDocs appointments", "symptom_checker"}
LoggedCalls == {"getIdToken list", "GET invitations", "login", "signOut"}

WriteSteps == {"updateDoc", "deleteDoc", "addDoc", "POST invitation"}

StoreWrites == {"updateDoc", "deleteDoc", "addDoc"}
OnUsers(p) == p.op \in {"editUser", "deleteUser"}

\* The step resumes handler invocation p after the await of its store write.
WriteResumed(p) ==
    /\ p \in pending /\ p \notin pending'
    /\ p.phase = "answered" /\ p.step \in StoreWrites
    /\ last'.call = p.step \o (IF OnUsers(p) THEN " users" ELSE " appointments")

\* C11: a handler resumed after a successful write fetches its table again
\* (and only its table); resumed after a failed write it issues no fetch and
\* leaves both tables as displayed; and no other step of the loaded page
\* starts a fetch of the users or the appointments table.
RefetchOnSuccessOnly ==
    [][/\ \A p \in pending :
            WriteResumed(p) =>
                IF ~p.ok
                THEN /\ UNCHANGED <<usersTable, userFetches>>
                     /\ UNCHANGED <<apptsTable, apptFetches>>
                ELSE IF OnUsers(p)
                THEN /\ Len(userFetches') = Len(userFetches) + 1
                     /\ UNCHANGED <<apptsTable, apptFetches>>
                ELSE /\ Len(apptFetches') = Len(apptFetches) + 1
                     /\ UNCHANGED <<usersTable, userFetches>>
       /\ (Len(userFetches') > Len(userFetches)
            \/ Len(apptFetches') > Len(apptFetches))
            => \E p \in pending : WriteResumed(p) /\ p.ok]_vars

\* C11 witness: deleteUser was resumed after a failed delete; no fetch is in
\* flight and the table shows what it showed.
RefetchOnSuccessOnlyWitness ==
    /\ last.call = "deleteDoc users" /\ ~last.ok
    /\ userFetches = <<>>
    /\ usersTable = UserRows(users)
    /\ Len(usersTable) = Cardinality(Uids)

\* C10: an invocation of editUser, deleteUser, addAppointment,
\* editAppointment, deleteAppointment or createAdminInvitation has its write
\* request sent once: a write request that appears in flight belongs to an
\* invocation that had none before, sent or answered.
NoRetry ==
    [][\A p \in pending' :
        (p.step \in WriteSteps /\ p.phase = "sent" /\ p \notin pending)
            => \A q \in pending : q.id = p.id => q.step \notin WriteSteps]_vars

\* C10 witness: a write failed, its handler has returned, and nothing is in
\* flight.
NoRetryWitness ==
    /\ last.call \in {"updateDoc users", "deleteDoc users", "addDoc appointments",
                       "updateDoc appointments", "deleteDoc appointments",
                       "POST invitation"}
    /\ ~last.ok
    /\ pending = {}

\* The rows of table that show user u.
RowsOf(table, u) == {i \in 1..Len(table) : table[i][1] = u}

\* C22: once every fetchUsers refresh has completed, overlapping ones
\* included, the users table shows no user in more than one row.
UsersTableNoDuplicates ==
    (domLoaded /\ userFetches = <<>>)
        => \A u \in Uids : Cardinality(RowsOf(usersTable, u)) <= 1

\* What the prompt returns when the edit is to be refused: cancelled, empty,
\* blank, or a text that in lower case is none of the five roles.
RefusedRoleInputs ==
    {r \in RoleInputs :
        \/ r = Null
        \/ r \in {"", "   "}
        \/ toLowerCase(r) \notin RoleEnumeration}

\* C23: editUser with a cancelled, empty, blank or invalid role sends no
\* write and starts no refresh; store, table and pending calls stay as they
\* are, and an alert says why.
EditUserRefuses ==
    [][\A userId \in Uids, newRole \in RefusedRoleInputs :
          editUser(userId, newRole)
              => /\ UNCHANGED <<storeVars, userTableVars, pending, nextId>>
                 /\ last'.shown = "alert"]_vars

\* C23 witness: a role that is none of the five was refused with the loaded
\* table and the user records in place.
EditUserRefusesWitness ==
    /\ last.alert = "Invalid role"
    /\ pending = {}
    /\ userFetches = <<>>
    /\ usersTable = UserRows(users)
    /\ users[AuthUid] = "admin"

\* Nothing is sent, refreshed or alerted in this step.
NothingDone ==
    /\ UNCHANGED <<storeVars, userTableVars, apptTableVars, pending, nextId>>
    /\ last'.shown # "alert" /\ last'.alert = ""

\* C24: a declined confirm dialog of deleteUser or of deleteAppointment
\* sends no delete, starts no refresh and shows no alert; records and tables
\* stay as they are.
DeclinedDelete ==
    [][/\ \A userId \in Uids : deleteUser(userId, FALSE) => NothingDone
       /\ \A apptId \in ApptIds : deleteAppointment(apptId, FALSE) => NothingDone]_vars

\* C24 witness: a dialog was declined on the loaded page, no handler is
\* awaiting anything, tables and records are as they were loaded.
DeclinedDeleteWitness ==
    /\ last = Declined
    /\ nextId = 1 /\ pending = {}
    /\ users = [u \in Uids |-> IF u = AuthUid THEN "admin" ELSE "patient"]
    /\ appts = InitAppts
    /\ userFetches = <<>> /\ apptFetches = <<>>
    /\ usersTable = UserRows(users)
    /\ apptsTable = ApptRows(revision, appts)

\* C25: in the newer admin dashboard an appointment is sent to the store,
\* and so written, only for a patient id found in "patients" and a doctor id
\* found in "doctors"; a lookup that finds nothing ends the handler.
AppointmentForKnownPeople ==
    revision = "newer" =>
        /\ \A p \in pending :
              (p.op = "addAppointment" /\ p.step = "addDoc")
                  => p.args.patientId \in Patients /\ p.args.doctorId \in Doctors
        /\ \A p \in pending :
              (p.op = "addAppointment" /\ p.step = "getDoc doctors")
                  => p.args.patientId \in Patients
        /\ \A a \in ApptIds :
              Exists(appts[a])
                  => appts[a].patientId \in Patients /\ appts[a].doctorId \in Doctors

\* C25 witness: the newer dashboard has written an appointment after both
\* lookups found their document.
AppointmentForKnownPeopleWitness ==
    /\ revision = "newer"
    /\ last.call = "addDoc appointments" /\ last.ok
    /\ \E a \in ApptIds :
          /\ InitAppts[a] = NoAppt
          /\ Exists(appts[a])
          /\ appts[a].patientId \in Patients /\ appts[a].doctorId \in Doctors

----------------------------------------------------------------------------

Init ==
    /\ location \in DashboardPages
    /\ entry = location
    /\ redirects = 0
    /\ authUser \in {"none", "unverified", "verified"}
    /\ serverSession \in {NoSession, [uid |-> AuthUid, role |-> "patient"]}
    /\ localStorage \in {EmptyStorage,
                         [userRole |-> "patient", userData |-> [role |-> "patient"]]}
    /\ gate = "idle"
    /\ gateRole = Null
    /\ calls = NoCalls
    /\ users \in {[u \in Uids |-> IF u = AuthUid THEN r ELSE "patient"] :
                    r \in StoredRoles \cup {Absent}}
    /\ appts = InitAppts
    /\ revision \in {"static", "newer"}
    /\ apptsTable = <<>>
    /\ apptFetches = <<>>
    /\ invitations = InitInvitations
    /\ api = NoApi
    /\ others = {}
    /\ invTable = <<>>
    /\ invFetches = <<>>
    /\ domLoaded = FALSE
    /\ usersTable = <<>>
    /\ userFetches = <<>>
    /\ pending = {}
    /\ symptoms = NoSymptoms
    /\ sections = NoSections
    /\ nextId = 1
    /\ last = NoCall

Next ==
    \/ onAuthStateChanged
    \/ verifyAccessProfile
    \/ syncServerSession
    \/ checkServerSession
    \/ DOMContentLoaded
    \/ getDocsUsers
    \/ fetchUsers
    \/ getDocsAppointments
    \/ fetchAppointments
    \/ fetchAdminInvitationsToken
    \/ listInvitations
    \/ fetchAdminInvitations

Spec == Init /\ [][Next]_vars

\* The admin has been let in (the gate still awaits the session sync) and
\* opens the admin dashboard.
InitUsers ==
    /\ location = AdminPage
    /\ entry = AdminPage
    /\ redirects = 0
    /\ authUser = "verified"
    /\ serverSession = NoSession
    /\ localStorage = EmptyStorage
    /\ gate = "sync"
    /\ gateRole = "admin"
    /\ calls = [getDoc |-> 1, login |-> 1, check |-> 0]
    /\ users = [u \in Uids |-> IF u = AuthUid THEN "admin" ELSE "patient"]
    /\ appts = InitAppts
    /\ revision \in {"static", "newer"}
    /\ domLoaded = FALSE
    /\ usersTable = <<>>
    /\ userFetches = <<>>
    /\ apptsTable = <<>>
    /\ apptFetches = <<>>
    /\ invitations = InitInvitations
    /\ api = NoApi
    /\ others = {}
    /\ invTable = <<>>
    /\ invFetches = <<>>
    /\ pending = {}
    /\ symptoms = NoSymptoms
    /\ sections = NoSections
    /\ nextId = 1
    /\ last = NoCall

\* The users table, from page load on.
NextUsers ==
    \/ DOMContentLoaded
    \/ getDocsUsers
    \/ fetchUsers
    \/ nextId <= MaxOps /\ \E userId \in Uids, newRole \in RoleInputs :
          editUser(userId, newRole)
    \/ nextId <= MaxOps /\ \E userId \in Uids, confirmed \in BOOLEAN :
          deleteUser(userId, confirmed)
    \/ writeUsers
    \/ editUserDone
    \/ deleteUserDone

SpecUsers == InitUsers /\ [][NextUsers]_vars

\* The admin dashboard once its tables are loaded.
InitAdmin ==
    /\ location = AdminPage
    /\ entry = AdminPage
    /\ redirects = 0
    /\ authUser = "verified"
    /\ serverSession = NoSession
    /\ localStorage = EmptyStorage
    /\ gate = "sync"
    /\ gateRole = "admin"
    /\ calls = [getDoc |-> 1, login |-> 1, check |-> 0]
    /\ users = [u \in Uids |-> IF u = AuthUid THEN "admin" ELSE "patient"]
    /\ appts = InitAppts
    /\ revision \in {"static", "newer"}
    /\ domLoaded = TRUE
    /\ usersTable = UserRows(users)
    /\ userFetches = <<>>
    /\ apptsTable = ApptRows(revision, appts)
    /\ apptFetches = <<>>
    /\ invitations = InitInvitations
    /\ api = NoApi
    /\ others = {}
    /\ invTable = InvitationRows(invitations)
    /\ invFetches = <<>>
    /\ pending = {}
    /\ symptoms = NoSymptoms
    /\ sections = NoSections
    /\ nextId = 1
    /\ last = NoCall

NextAdmin ==
    \/ syncServerSession
    \/ getDocsUsers
    \/ fetchUsers
    \/ nextId <= MaxAdminOps /\ \E userId \in Uids, newRole \in RoleInputs :
          editUser(userId, newRole)
    \/ nextId <= MaxAdminOps /\ \E userId \in Uids, confirmed \in BOOLEAN :
          deleteUser(userId, confirmed)
    \/ writeUsers
    \/ editUserDone
    \/ deleteUserDone
    \/ getDocsAppointments
    \/ fetchAppointments
    \/ nextId <= MaxAdminOps
          /\ \E patientId \in PatientInputs, doctorId \in DoctorInputs,
                date \in DateInputs : addAppointment(patientId, doctorId, date)
    \/ nextId <= MaxAdminOps
          /\ \E apptId \in ApptIds, newDate \in DateInputs, lenient \in BOOLEAN,
                west \in BOOLEAN : editAppointment(apptId, newDate, lenient, west)
    \/ nextId <= MaxAdminOps /\ \E apptId \in ApptIds, confirmed \in BOOLEAN :
          deleteAppointment(apptId, confirmed)
    \/ getDocPerson
    \/ writeAppointments
    \/ addAppointmentLookup
    \/ addAppointmentDone
    \/ editAppointmentDone
    \/ deleteAppointmentDone
    \/ fetchAdminInvitationsToken
    \/ listInvitations
    \/ fetchAdminInvitations
    \/ nextId <= MaxAdminOps /\ \E email \in EmailInputs :
          createAdminInvitation(email)
    \/ createAdminInvitationToken
    \/ postInvitation
    \/ createAdminInvitationDone
    \/ nextId <= MaxAdminOps /\ logout
    \/ signOut
    \/ postLogout
    \/ logoutDone
    \/ checkServerSession

SpecAdmin == InitAdmin /\ [][NextAdmin]_vars

\* The symptom checker page, served without a gate.
InitSymptoms ==
    /\ location = SymptomPage
    /\ entry = SymptomPage
    /\ redirects = 0
    /\ authUser \in {"none", "verified"}
    /\ serverSession = NoSession
    /\ localStorage = EmptyStorage
    /\ gate = "idle"
    /\ gateRole = Null
    /\ calls = NoCalls
    /\ users = [u \in Uids |-> IF u = AuthUid THEN "admin" ELSE "patient"]
    /\ appts = InitAppts
    /\ revision \in {"static", "newer"}
    /\ domLoaded = TRUE
    /\ usersTable = <<>>
    /\ userFetches = <<>>
    /\ apptsTable = <<>>
    /\ apptFetches = <<>>
    /\ invitations = InitInvitations
    /\ api = NoApi
    /\ others = {}
    /\ invTable = <<>>
    /\ invFetches = <<>>
    /\ pending = {}
    /\ symptoms = NoSymptoms
    /\ sections = NoSections
    /\ nextId = 1
    /\ last = NoCall

\* The pages of the front end that call the store, the backend or the AI
\* proxy: the admin dashboard and the symptom checker.
InitFront == InitAdmin \/ InitSymptoms

NextFront ==
    \/ NextAdmin
    \/ \E text \in SymptomInputs : checkSymptoms(text)
    \/ symptomChecker
    \/ checkSymptomsDone

SpecFront == InitFront /\ [][NextFront]_vars

----------------------------------------------------------------------------
(* The symptom checker page                                                 *)

\* The front end, where the promise callbacks of checkSymptoms run once the
\* request has settled.
SpecFrontFair == InitFront /\ [][NextFront]_vars /\ WF_vars(checkSymptomsDone)

Settled == symptoms.request \in {"ok", "noResponse", "error"}

\* From the click until the callbacks have run the button is disabled and
\* the result area hidden; the button is disabled at no other time.
DisabledWhileAnalyzing ==
    /\ (symptoms.request = "sent" \/ Settled)
          => symptoms.button = "disabled" /\ symptoms.result = "none"
    /\ symptoms.button = "disabled" => (symptoms.request = "sent" \/ Settled)

\* The callbacks re-enable the button and show the result area, with the
\* formatted response or with the error text.
ReEnabled ==
    (Settled /\ symptoms'.request = "none")
        => /\ symptoms'.button = "enabled"
           /\ symptoms'.result = "block"
           /\ symptoms'.aiResponse =
                  IF symptoms.request = "ok" THEN formatted(symptoms.response)
                  ELSE "An error occurred while analyzing symptoms."

\* A blank input is alerted and sends nothing; any other input sends the
\* request.
BlankNotSent ==
    \A text \in SymptomInputs :
        checkSymptoms(text)
            => IF text \in {"", "   "}
               THEN /\ symptoms' = symptoms
                    /\ last'.alert = "Please enter some symptoms."
               ELSE symptoms'.request = "sent" /\ symptoms'.button = "disabled"

\* C27: for an input that is not blank the analyze button is disabled from
\* the click until the request has settled, and then re-enabled with the
\* result area shown, whether the answer has a response, has none, or the
\* request failed; a blank input sends no request.
AnalyzeButton ==
    /\ []DisabledWhileAnalyzing
    /\ [][ReEnabled /\ BlankNotSent]_vars
    /\ Settled ~> (symptoms.button = "enabled" /\ symptoms.result = "block")

\* C27 witness: the answer had no response field; the button is enabled
\* again and the result area shows the error text.
AnalyzeButtonWitness ==
    /\ last.call = "symptom_checker" /\ ~last.ok
    /\ symptoms.button = "enabled"
    /\ symptoms.result = "block"
    /\ symptoms.aiResponse = "An error occurred while analyzing symptoms."

====
